---------------------------- MODULE Spec2Model ----------------------------
(***************************************************************************)
(* A model of the statement parsing and classification pipeline of         *)
(* cc-wrapped: the normalisation utilities (app/services/utils.py), the     *)
(* three table strategies, the parser factory and the document loop         *)
(* (app/services/parser.py), the ingestion step and the report              *)
(* (app/api/cards.py), and the classifier (app/services/categorizer.py).    *)
(*                                                                         *)
(* Text is a sequence of one-character strings, so that every string        *)
(* operation of the code (strip, upper, "in", endswith, the regular         *)
(* expressions) is computed character by character.  An optional text cell  *)
(* of a table is None or Some(text).  An amount is carried in hundredths    *)
(* (1234.56 is 123456); the inputs of the model have at most two            *)
(* fractional digits, for which this is exact.                              *)
(***************************************************************************)
EXTENDS Integers, Sequences, FiniteSets, TLC

(***************************************************************************)
(* Characters and text                                                     *)
(***************************************************************************)
Digit == {"0","1","2","3","4","5","6","7","8","9"}

Lowercase == {"a","b","c","d","e","f","g","h","i","j","k","l","m",
              "n","o","p","q","r","s","t","u","v","w","x","y","z"}

Uppercase == {"A","B","C","D","E","F","G","H","I","J","K","L","M",
              "N","O","P","Q","R","S","T","U","V","W","X","Y","Z"}

Letter == Lowercase \cup Uppercase

\* The characters Python's str.strip() and the regular expression \s take as
\* white space (those that occur in statement text).
Whitespace == {" ", "\t", "\n", "\r"}

DigitVal(c) ==
    CASE c = "0" -> 0 [] c = "1" -> 1 [] c = "2" -> 2 [] c = "3" -> 3
      [] c = "4" -> 4 [] c = "5" -> 5 [] c = "6" -> 6 [] c = "7" -> 7
      [] c = "8" -> 8 [] c = "9" -> 9

UpperChar(c) ==
    CASE c = "a" -> "A" [] c = "b" -> "B" [] c = "c" -> "C" [] c = "d" -> "D"
      [] c = "e" -> "E" [] c = "f" -> "F" [] c = "g" -> "G" [] c = "h" -> "H"
      [] c = "i" -> "I" [] c = "j" -> "J" [] c = "k" -> "K" [] c = "l" -> "L"
      [] c = "m" -> "M" [] c = "n" -> "N" [] c = "o" -> "O" [] c = "p" -> "P"
      [] c = "q" -> "Q" [] c = "r" -> "R" [] c = "s" -> "S" [] c = "t" -> "T"
      [] c = "u" -> "U" [] c = "v" -> "V" [] c = "w" -> "W" [] c = "x" -> "X"
      [] c = "y" -> "Y" [] c = "z" -> "Z" [] OTHER -> c

LowerChar(c) ==
    CASE c = "A" -> "a" [] c = "B" -> "b" [] c = "C" -> "c" [] c = "D" -> "d"
      [] c = "E" -> "e" [] c = "F" -> "f" [] c = "G" -> "g" [] c = "H" -> "h"
      [] c = "I" -> "i" [] c = "J" -> "j" [] c = "K" -> "k" [] c = "L" -> "l"
      [] c = "M" -> "m" [] c = "N" -> "n" [] c = "O" -> "o" [] c = "P" -> "p"
      [] c = "Q" -> "q" [] c = "R" -> "r" [] c = "S" -> "s" [] c = "T" -> "t"
      [] c = "U" -> "u" [] c = "V" -> "v" [] c = "W" -> "w" [] c = "X" -> "x"
      [] c = "Y" -> "y" [] c = "Z" -> "z" [] OTHER -> c

\* str.upper() and str.lower()
Upper(s) == [i \in 1..Len(s) |-> UpperChar(s[i])]

Lower(s) == [i \in 1..Len(s) |-> LowerChar(s[i])]

\* s[i:] of Python with i counted from 1
From(s, i) == SubSeq(s, i, Len(s))

\* "sub in s"
Contains(s, sub) ==
    \E i \in 1..(Len(s) - Len(sub) + 1) : SubSeq(s, i, i + Len(sub) - 1) = sub

\* "any(p in s for p in patterns)"
ContainsAny(s, patterns) == \E p \in patterns : Contains(s, p)

\* s.startswith(p), s.endswith(p)
StartsWith(s, p) == Len(s) >= Len(p) /\ SubSeq(s, 1, Len(p)) = p

EndsWith(s, p) == Len(s) >= Len(p) /\ SubSeq(s, Len(s) - Len(p) + 1, Len(s)) = p

\* The least and the greatest element of a set of integers that is not empty
Min(S) == CHOOSE x \in S : \A y \in S : x <= y

Max(S) == CHOOSE x \in S : \A y \in S : x >= y

\* The least element of a set of positive integers, 0 for the empty set
MinOrZero(S) == IF S = {} THEN 0 ELSE Min(S)

\* s.strip()
Strip(s) ==
    LET keep == {i \in 1..Len(s) : s[i] \notin Whitespace}
    IN  IF keep = {} THEN <<>> ELSE SubSeq(s, Min(keep), Max(keep))

\* The characters of s that are in the set keep, in order: re.sub(r'[^...]', '', s)
RECURSIVE Filter(_, _)
Filter(s, keep) ==
    IF s = <<>> THEN <<>>
    ELSE IF Head(s) \in keep THEN <<Head(s)>> \o Filter(Tail(s), keep)
         ELSE Filter(Tail(s), keep)

\* The first index >= i of s whose character is not white space (Len(s)+1 if none):
\* where a greedy \s* started at i stops.
SkipSpaces(s, i) ==
    LET stop == {j \in i..Len(s) : s[j] \notin Whitespace}
    IN  IF stop = {} THEN Len(s) + 1 ELSE Min(stop)

\* The value of a run of decimal digits
RECURSIVE DigitsVal(_)
DigitsVal(s) ==
    IF s = <<>> THEN 0
    ELSE 10 * DigitsVal(SubSeq(s, 1, Len(s) - 1)) + DigitVal(s[Len(s)])

AllIn(s, set) == \A i \in 1..Len(s) : s[i] \in set

(***************************************************************************)
(* Optional values: a table cell, an issuer category                       *)
(***************************************************************************)
None == [some |-> FALSE, text |-> <<>>]

Some(t) == [some |-> TRUE, text |-> t]

\* Python's truth value of an optional text: None and "" are false
Truthy(cell) == cell.some /\ cell.text # <<>>

\* str(cell): the text of None is "None"
Str(cell) == IF cell.some THEN cell.text ELSE <<"N","o","n","e">>

(***************************************************************************)
(* utils.py                                                                *)
(***************************************************************************)
\* Whether float() accepts a text of digits and '.' without a sign: at most
\* one '.', at least one digit
IsUnsignedFloat(body) ==
    /\ AllIn(body, Digit \cup {"."})
    /\ Cardinality({i \in 1..Len(body) : body[i] = "."}) <= 1
    /\ \E i \in 1..Len(body) : body[i] \in Digit

\* What float() accepts of a text made of digits, '.' and '-' only: an optional
\* leading '-', then an unsigned number
IsFloatText(t) ==
    IF t # <<>> /\ t[1] = "-" THEN IsUnsignedFloat(Tail(t)) ELSE IsUnsignedFloat(t)

\* The digit at place k of a fraction, 0 past its end
FracDigit(frac, k) == IF Len(frac) >= k THEN DigitVal(frac[k]) ELSE 0

\* The value in hundredths of the digits before and after the '.'
Hundredths(int, frac) ==
    100 * DigitsVal(int) + 10 * FracDigit(frac, 1) + FracDigit(frac, 2)

\* The value in hundredths of an unsigned number whose '.' is at index dot
\* (Len(body) + 1 when it has none)
UnsignedValueAt(body, dot) ==
    Hundredths(SubSeq(body, 1, dot - 1), SubSeq(body, dot + 1, Len(body)))

UnsignedValue(body) ==
    UnsignedValueAt(body, Min({i \in 1..(Len(body) + 1) :
                                  i = Len(body) + 1 \/ body[i] = "."}))

\* The value, in hundredths, of a text IsFloatText accepts
FloatValue(t) ==
    IF t[1] = "-" THEN 0 - UnsignedValue(Tail(t)) ELSE UnsignedValue(t)

\* A parse that keeps the digits of a text float() rejects
FloatOrDigits(clean_str) ==
    IF IsFloatText(clean_str) THEN FloatValue(clean_str)
    ELSE 100 * DigitsVal(Filter(clean_str, Digit))

\* float(clean_str), with 0.0 for a ValueError
FloatOrZero(clean_str) ==
    IF IsFloatText(clean_str) THEN FloatValue(clean_str) ELSE 0

\* parse_amount: every character that is not a digit, '.' or '-' is removed and
\* the rest is handed to float(); a ValueError gives 0.0.
parse_amount(amount_str) == FloatOrZero(Filter(amount_str, Digit \cup {".", "-"}))

\* parse_date gives a date <<year, month, day>> or NoDate (Python's None)
NoDate == <<>>

IsLeap(y) == (y % 4 = 0 /\ y % 100 # 0) \/ y % 400 = 0

DaysInMonth(y, m) ==
    IF m = 2 THEN (IF IsLeap(y) THEN 29 ELSE 28)
    ELSE IF m \in {4, 6, 9, 11} THEN 30 ELSE 31

\* The date of a day, a month and a year, NoDate when there is no such day
DateOf(d, m, y) ==
    IF m \in 1..12 /\ y >= 1 /\ d >= 1 /\ d <= DaysInMonth(y, m)
    THEN <<y, m, d>> ELSE NoDate

\* %y: 00..68 are 2000..2068, 69..99 are 1969..1999
TwoDigitYear(v) == IF v <= 68 THEN 2000 + v ELSE 1900 + v

\* The date of the three fields of a text, each a run of digits of the right
\* length
DateOfFields(dd, mm, yy, yearLen) ==
    IF /\ AllIn(dd, Digit) /\ AllIn(mm, Digit) /\ AllIn(yy, Digit)
       /\ Len(dd) \in {1, 2} /\ Len(mm) \in {1, 2} /\ Len(yy) = yearLen
    THEN DateOf(DigitsVal(dd), DigitsVal(mm),
                IF yearLen = 4 THEN DigitsVal(yy) ELSE TwoDigitYear(DigitsVal(yy)))
    ELSE NoDate

\* The date of a text whose separators are at p1 and p2
DateSplit(date_str, p1, p2, yearLen) ==
    DateOfFields(SubSeq(date_str, 1, p1 - 1), SubSeq(date_str, p1 + 1, p2 - 1),
                 SubSeq(date_str, p2 + 1, Len(date_str)), yearLen)

DateAtSeps(date_str, seps, yearLen) ==
    IF Cardinality(seps) # 2 THEN NoDate
    ELSE DateSplit(date_str, Min(seps), Max(seps), yearLen)

\* datetime.strptime(date_str, "%d<sep>%m<sep>%Y") (yearLen 4) or
\* "%d<sep>%m<sep>%y" (yearLen 2): the whole text must be day, month and year
\* fields of digits; a ValueError gives NoDate.
strptime(date_str, sep, yearLen) ==
    DateAtSeps(date_str, {i \in 1..Len(date_str) : date_str[i] = sep}, yearLen)

\* The six formats of parse_date, in the order the code tries them
DateFormats ==
    << <<"/", 4>>, <<"-", 4>>, <<".", 4>>, <<"/", 2>>, <<"-", 2>>, <<".", 2>> >>

\* The loop of parse_date from format k: the first format that parses wins
RECURSIVE DateFrom(_, _)
DateFrom(date_str, k) ==
    IF k > Len(DateFormats) THEN NoDate
    ELSE IF strptime(date_str, DateFormats[k][1], DateFormats[k][2]) # NoDate
         THEN strptime(date_str, DateFormats[k][1], DateFormats[k][2])
         ELSE DateFrom(date_str, k + 1)

\* parse_date
parse_date(date_str) == DateFrom(date_str, 1)

\* desc.replace('  ', ' '): one pass that halves the runs of spaces
RECURSIVE CollapsePairs(_)
CollapsePairs(s) ==
    IF Len(s) < 2 THEN s
    ELSE IF s[1] \in Whitespace /\ s[2] \in Whitespace
         THEN <<" ">> \o CollapsePairs(From(s, 3))
         ELSE <<s[1]>> \o CollapsePairs(Tail(s))

\* re.sub(r'\s+', ' ', s): every maximal run of white space becomes one space
RECURSIVE CollapseSpaces(_)
CollapseSpaces(s) ==
    IF s = <<>> THEN <<>>
    ELSE IF s[1] \in Whitespace
         THEN <<" ">> \o CollapseSpaces(From(s, SkipSpaces(s, 1)))
         ELSE <<s[1]>> \o CollapseSpaces(Tail(s))

\* desc.replace('\n', ' ')
ReplaceNewlines(s) == [i \in 1..Len(s) |-> IF s[i] = "\n" THEN " " ELSE s[i]]

\* clean_description
clean_description(desc) ==
    IF desc = <<>> THEN <<>> ELSE Strip(CollapseSpaces(ReplaceNewlines(desc)))

skip_patterns == {
    <<"E","N","D"," ","O","F"," ","S","T","A","T","E","M","E","N","T">>,
    <<"P","A","Y","M","E","N","T"," ","S","U","M","M","A","R","Y">>,
    <<"A","C","C","O","U","N","T"," ","S","U","M","M","A","R","Y">>,
    <<"C","A","R","D"," ","N","O",":">>,
    <<"T","O","T","A","L"," ","A","M","O","U","N","T">>,
    <<"O","P","E","N","I","N","G"," ","B","A","L","A","N","C","E">>,
    <<"C","L","O","S","I","N","G"," ","B","A","L","A","N","C","E">>,
    <<"S","T","A","T","E","M","E","N","T"," ","P","E","R","I","O","D">>
}

\* is_footer_row
is_footer_row(row_text) ==
    IF row_text = <<>> THEN FALSE
    ELSE ContainsAny(Upper(row_text), skip_patterns)

\* The end of detect_credit_transaction without the test of the '+'
DetectNoPlus(s1, is_credit) ==
    [amount |-> parse_amount(s1), is_credit |-> is_credit]

\* The end of detect_credit_transaction: the '+' in front, then parse_amount
DetectPlus(s1, is_credit) ==
    IF StartsWith(s1, <<"+">>)
    THEN [amount |-> parse_amount(Strip(Tail(s1))), is_credit |-> TRUE]
    ELSE [amount |-> parse_amount(s1), is_credit |-> is_credit]

\* The Cr or Dr at the end of the stripped text
DetectSuffix(s0) ==
    IF EndsWith(s0, <<" ","C","r">>)
    THEN DetectPlus(Strip(SubSeq(s0, 1, Len(s0) - 3)), TRUE)
    ELSE IF EndsWith(s0, <<" ","D","r">>)
    THEN DetectPlus(Strip(SubSeq(s0, 1, Len(s0) - 3)), FALSE)
    ELSE DetectPlus(s0, FALSE)

\* detect_credit_transaction: [amount, is_credit]
detect_credit_transaction(amount_str) == DetectSuffix(Strip(amount_str))

(***************************************************************************)
(* Tables.  A table is a sequence of rows; a row is a sequence of optional  *)
(* text cells, or is absent (Python's None in place of the list).           *)
(***************************************************************************)
Row(cells) == [absent |-> FALSE, cells |-> cells]

AbsentRow == [absent |-> TRUE, cells |-> <<>>]

\* Python's truth value of a row: None and [] are false
RowTruthy(row) == ~row.absent /\ row.cells # <<>>

\* What a call gives: a value, or the exception it raises
Ret(v) == [exc |-> "none", val |-> v]

Raise(e, v) == [exc |-> e, val |-> v]

\* A transaction record as the strategies and the line scanner emit it
Txn(dt, desc, amt, credit, cat) ==
    [date |-> dt, description |-> desc, amount |-> amt, currency |-> "INR",
     is_credit |-> credit, category |-> cat]

(***************************************************************************)
(* parser.py: HDFCParser                                                   *)
(***************************************************************************)
\* \d{2}/\d{2}/\d{4} at index i of s
DateAt(s, i) ==
    /\ i >= 1 /\ i + 9 <= Len(s)
    /\ \A k \in {0, 1, 3, 4, 6, 7, 8, 9} : s[i + k] \in Digit
    /\ s[i + 2] = "/" /\ s[i + 5] = "/"

\* \d{2}:\d{2} at index i of s
TimeAt(s, i) ==
    /\ i >= 1 /\ i + 4 <= Len(s)
    /\ \A k \in {0, 1, 3, 4} : s[i + k] \in Digit
    /\ s[i + 2] = ":"

\* \|\s*\d{2}:\d{2} at index bar of s: the index after it, or 0
AfterBar(s, bar) ==
    IF bar > Len(s) \/ s[bar] # "|" THEN 0
    ELSE IF TimeAt(s, SkipSpaces(s, bar + 1)) THEN SkipSpaces(s, bar + 1) + 5
    ELSE 0

\* \d{2}/\d{2}/\d{4}\s*\|\s*\d{2}:\d{2} matched at index i of s: the index after
\* the match, or 0 when there is no match at i.
HdfcPrefixAt(s, i) ==
    IF ~DateAt(s, i) THEN 0 ELSE AfterBar(s, SkipSpaces(s, i + 10))

\* hdfc_pattern.search(s) of can_parse
HdfcSearch(s) == \E i \in 1..Len(s) : HdfcPrefixAt(s, i) # 0

\* \.\d{2}\s*[A-Za-z]?$ at index dot of s, after an amount that starts at q
DotAt(s, q, dot) ==
    /\ q >= 1 /\ dot > q /\ dot + 2 <= Len(s)
    /\ s[dot] = "." /\ s[dot + 1] \in Digit /\ s[dot + 2] \in Digit
    /\ \/ SkipSpaces(s, dot + 3) = Len(s) + 1
       \/ SkipSpaces(s, dot + 3) = Len(s) /\ s[Len(s)] \in Letter

\* The index at which the greedy [\d,]+ started at q stops
DigitsEnd(s, q) ==
    Min({j \in q..(Len(s) + 1) : j = Len(s) + 1 \/ s[j] \notin Digit \cup {","}})

\* [\d,]+\.\d{2}\s*[A-Za-z]?$ matched at index q of s: the index of the '.', or 0
AmountDotAt(s, q) ==
    IF q >= 1 /\ q <= Len(s) /\ DotAt(s, q, DigitsEnd(s, q))
    THEN DigitsEnd(s, q) ELSE 0

\* \s+[\d,]+\.\d{2}\s*[A-Za-z]?$ matched at index p of s
TailAt(s, p) ==
    /\ p >= 1 /\ p <= Len(s) /\ s[p] \in Whitespace
    /\ AmountDotAt(s, SkipSpaces(s, p)) # 0

NoMatch == [ok |-> FALSE, date |-> <<>>, desc |-> <<>>, amount |-> <<>>]

\* The groups of a match from i whose description is s[ds..de-1]: the amount
\* runs from the end of the white space after it to the second digit after the
\* '.'
HdfcGroups(s, i, ds, de) ==
    [ok |-> TRUE, date |-> SubSeq(s, i, i + 9), desc |-> SubSeq(s, ds, de - 1),
     amount |-> SubSeq(s, SkipSpaces(s, de),
                       AmountDotAt(s, SkipSpaces(s, de)) + 2)]

\* After the time, the first \s+ is greedy and (?P<desc>.*?) is lazy: the
\* description runs from ds, the first character that is not white space, to
\* the first place the tail matches; when there is no such place the first \s+
\* gives one character back and the description is empty.
HdfcDescFrom(s, i, r, ds) ==
    IF \E p \in ds..Len(s) : TailAt(s, p)
    THEN HdfcGroups(s, i, ds, Min({p \in ds..Len(s) : TailAt(s, p)}))
    ELSE IF ds - r >= 2 /\ TailAt(s, ds - 1)
    THEN HdfcGroups(s, i, ds, ds - 1)
    ELSE NoMatch

\* The rest of the pattern after the time, which ends before index r
HdfcAfterTime(s, i, r) ==
    IF r = 0 \/ r > Len(s) THEN NoMatch
    ELSE IF s[r] \notin Whitespace THEN NoMatch
    ELSE HdfcDescFrom(s, i, r, SkipSpaces(s, r))

\* The whole pattern of extract_transactions matched from index i of s:
\* [ok, date, desc, amount]
HdfcMatchAt(s, i) == HdfcAfterTime(s, i, HdfcPrefixAt(s, i))

\* hdfc_pattern.search(s) of extract_transactions: the leftmost match
HdfcMatch(s) ==
    HdfcMatchAt(s, MinOrZero({i \in 1..Len(s) : HdfcMatchAt(s, i).ok}))

\* A can_parse that looks for the pattern in every row
HDFC_can_parse_every_row(table) ==
    IF table = <<>> THEN Ret(FALSE)
    ELSE IF table[1].absent THEN Raise("TypeError", FALSE)
    ELSE IF Len(table[1].cells) # 1 THEN Ret(FALSE)
    ELSE Ret(\E k \in 1..Len(table) :
                /\ RowTruthy(table[k])
                /\ table[k].cells[1].some
                /\ HdfcSearch(table[k].cells[1].text))

\* HDFCParser.can_parse
HDFC_can_parse(table) ==
    IF table = <<>> THEN Ret(FALSE)
    ELSE IF table[1].absent THEN Raise("TypeError", FALSE)
    ELSE IF Len(table[1].cells) # 1 THEN Ret(FALSE)
    ELSE Ret(\E k \in 1..Len(table) :
                /\ k <= 5
                /\ RowTruthy(table[k])
                /\ table[k].cells[1].some
                /\ HdfcSearch(table[k].cells[1].text))

\* The record of a matched row whose description is desc_str: none when the
\* date does not parse
HDFC_emit(match, desc_str, is_credit) ==
    IF parse_date(match.date) = NoDate THEN <<>>
    ELSE << Txn(parse_date(match.date), clean_description(desc_str),
                parse_amount(match.amount), is_credit, None) >>

\* The suffix test with a credit for " C" too
HDFC_suffix_both(match, desc_str) ==
    IF EndsWith(desc_str, <<"+"," ","C">>)
    THEN HDFC_emit(match, Strip(SubSeq(desc_str, 1, Len(desc_str) - 3)), TRUE)
    ELSE IF EndsWith(desc_str, <<" ","C">>)
    THEN HDFC_emit(match, Strip(SubSeq(desc_str, 1, Len(desc_str) - 2)), TRUE)
    ELSE HDFC_emit(match, desc_str, FALSE)

\* The credit suffix of the stripped description: "+ C" marks a credit and is
\* removed, " C" is removed
HDFC_suffix(match, desc_str) ==
    IF EndsWith(desc_str, <<"+"," ","C">>)
    THEN HDFC_emit(match, Strip(SubSeq(desc_str, 1, Len(desc_str) - 3)), TRUE)
    ELSE IF EndsWith(desc_str, <<" ","C">>)
    THEN HDFC_emit(match, Strip(SubSeq(desc_str, 1, Len(desc_str) - 2)), FALSE)
    ELSE HDFC_emit(match, desc_str, FALSE)

\* The records of a line after the search: none or one
HDFC_matched(match) ==
    IF match.ok THEN HDFC_suffix(match, Strip(match.desc)) ELSE <<>>

\* The records one row of an HDFC table gives: none or one
HDFC_row(row) ==
    IF ~RowTruthy(row) THEN <<>>
    ELSE IF ~row.cells[1].some THEN <<>>
    ELSE HDFC_matched(HdfcMatch(ReplaceNewlines(row.cells[1].text)))

RECURSIVE HDFC_rows(_)
HDFC_rows(rows) ==
    IF rows = <<>> THEN <<>> ELSE HDFC_row(Head(rows)) \o HDFC_rows(Tail(rows))

\* HDFCParser.extract_transactions
HDFC_extract(table) ==
    IF table = <<>> THEN Raise("IndexError", <<>>)
    ELSE IF table[1].absent THEN Raise("TypeError", <<>>)
    ELSE IF Len(table[1].cells) = 1 THEN Ret(HDFC_rows(table))
    ELSE Ret(<<>>)

(***************************************************************************)
(* parser.py: AxisParser                                                   *)
(***************************************************************************)
\* The least index of headers whose text contains one of tokens, 0 when there is
\* none (the code's -1)
FirstIndex(headers, tokens) ==
    MinOrZero({i \in 1..Len(headers) : ContainsAny(headers[i], tokens)})

\* Whether the header row of an Axis table is its second row: the first cell of
\* the first row holds the banner
AxisBanner(table) == Contains(Upper(Str(table[1].cells[1])), <<"P","A","Y","M","E","N","T"," ","S","U","M","M","A","R","Y">>)

\* raw_headers
AxisRawHeaders(table) == IF AxisBanner(table) THEN table[2] ELSE table[1]

\* headers_upper of a header row
AxisHeaders(raw_headers) ==
    [i \in 1..Len(raw_headers) |->
        IF Truthy(raw_headers[i]) THEN Strip(Upper(Str(raw_headers[i]))) ELSE <<>>]

\* has_date and has_transaction and has_amount
AxisHasColumns(headers_upper) ==
    /\ FirstIndex(headers_upper, {<<"D","A","T","E">>}) # 0
    /\ FirstIndex(headers_upper, {<<"T","R","A","N","S","A","C","T","I","O","N">>}) # 0
    /\ FirstIndex(headers_upper, {<<"A","M","O","U","N","T">>}) # 0

\* AxisParser.can_parse
Axis_can_parse(table) ==
    IF Len(table) < 2 THEN Ret(FALSE)
    ELSE IF table[1].absent THEN Raise("TypeError", FALSE)
    ELSE IF table[1].cells = <<>> THEN Raise("IndexError", FALSE)
    ELSE IF AxisRawHeaders(table).absent THEN Raise("TypeError", FALSE)
    ELSE Ret(AxisHasColumns(AxisHeaders(AxisRawHeaders(table).cells)))

\* The cell of a row at a column, None when the row is too short
CellAt(cells, idx) == IF idx <= Len(cells) THEN cells[idx] ELSE None

\* ' '.join(parts)
RECURSIVE Join(_)
Join(parts) ==
    IF parts = <<>> THEN <<>>
    ELSE IF Len(parts) = 1 THEN parts[1]
    ELSE parts[1] \o <<" ">> \o Join(Tail(parts))

\* The test of a part without the exclusion of the text NONE
AxisIsNotBlank(cell) ==
    /\ Truthy(cell)
    /\ Strip(Str(cell)) # <<>>

\* Whether a cell is part of the description: not None or empty, and its
\* stripped text not empty and not NONE
AxisIsPart(cell) ==
    /\ Truthy(cell)
    /\ Strip(Str(cell)) # <<>>
    /\ Upper(Strip(Str(cell))) # <<"N","O","N","E">>

\* desc_parts: the stripped texts of the cells of columns lo..hi that are parts
RECURSIVE AxisDescParts(_, _, _)
AxisDescParts(cells, lo, hi) ==
    IF lo > hi THEN <<>>
    ELSE (IF AxisIsPart(cells[lo]) THEN <<Strip(Str(cells[lo]))>> ELSE <<>>)
         \o AxisDescParts(cells, lo + 1, hi)

\* desc_str: the joined parts of the columns from desc_idx up to end_idx
\* (excluded) or the end of the row; the empty text stands for None
AxisDesc(cells, desc_idx, end_idx) ==
    IF desc_idx <= Len(cells)
    THEN Join(AxisDescParts(cells, desc_idx,
                            IF end_idx - 1 <= Len(cells) THEN end_idx - 1
                            ELSE Len(cells)))
    ELSE <<>>

\* The record of a row without the test of the amount
AxisEmitAny(dt, desc_str, det, category_str) ==
    << Txn(dt, clean_description(desc_str), det.amount, det.is_credit,
           IF Truthy(category_str) /\ Strip(Str(category_str)) # <<>>
           THEN Some(Strip(category_str.text)) ELSE None) >>

\* The record of a row after detect_credit_transaction: none for an amount of 0
AxisEmit(dt, desc_str, det, category_str) ==
    IF det.amount = 0 THEN <<>>
    ELSE << Txn(dt, clean_description(desc_str), det.amount, det.is_credit,
                IF Truthy(category_str) /\ Strip(Str(category_str)) # <<>>
                THEN Some(Strip(category_str.text)) ELSE None) >>

\* The record of a row whose four values have been read: none when one of the
\* three is missing or the date does not parse
AxisValues(d_str, desc_str, amt_str, category_str) ==
    IF ~Truthy(d_str) \/ desc_str = <<>> \/ ~Truthy(amt_str) THEN <<>>
    ELSE IF parse_date(Strip(Str(d_str))) = NoDate THEN <<>>
    ELSE AxisEmit(parse_date(Strip(Str(d_str))), desc_str,
                  detect_credit_transaction(Strip(Str(amt_str))), category_str)

\* The records one data row of an Axis table gives: none or one.  The column
\* indices count from 1, and 0 stands for the code's -1.
Axis_row(row, date_idx, desc_idx, category_idx, amt_idx) ==
    IF ~RowTruthy(row) THEN <<>>
    ELSE IF Truthy(row.cells[1]) /\ is_footer_row(Str(row.cells[1])) THEN <<>>
    ELSE AxisValues(CellAt(row.cells, date_idx),
                    AxisDesc(row.cells, desc_idx,
                             IF category_idx # 0 THEN category_idx ELSE amt_idx),
                    CellAt(row.cells, amt_idx),
                    IF category_idx # 0 THEN CellAt(row.cells, category_idx)
                    ELSE None)

RECURSIVE Axis_rows(_, _, _, _, _)
Axis_rows(rows, date_idx, desc_idx, category_idx, amt_idx) ==
    IF rows = <<>> THEN <<>>
    ELSE Axis_row(Head(rows), date_idx, desc_idx, category_idx, amt_idx)
         \o Axis_rows(Tail(rows), date_idx, desc_idx, category_idx, amt_idx)

\* The rows of the table under the column indices
AxisIndexed(table, date_idx, desc_idx, category_idx, amt_idx) ==
    IF date_idx = 0 \/ desc_idx = 0 \/ amt_idx = 0 THEN Ret(<<>>)
    ELSE Ret(Axis_rows(Tail(table), date_idx, desc_idx, category_idx, amt_idx))

\* The column indices: the first header that holds each token
AxisColumns(table, headers_upper) ==
    AxisIndexed(table,
                FirstIndex(headers_upper, {<<"D","A","T","E">>}),
                FirstIndex(headers_upper, {<<"T","R","A","N","S","A","C","T","I","O","N">>}),
                FirstIndex(headers_upper, {<<"M","E","R","C","H","A","N","T"," ","C","A","T","E","G","O","R","Y">>}),
                FirstIndex(headers_upper, {<<"A","M","O","U","N","T">>}))

\* AxisParser.extract_transactions
Axis_extract(table) ==
    IF Len(table) < 2 THEN Ret(<<>>)
    ELSE IF table[1].absent THEN Raise("TypeError", <<>>)
    ELSE IF table[1].cells = <<>> THEN Raise("IndexError", <<>>)
    ELSE IF AxisRawHeaders(table).absent THEN Raise("TypeError", <<>>)
    ELSE AxisColumns(table, AxisHeaders(AxisRawHeaders(table).cells))

(***************************************************************************)
(* parser.py: StandardParser                                               *)
(***************************************************************************)
\* headers: the lower-cased texts of the cells of the first row that are not
\* None or empty (the absent cells are dropped, the others move left)
RECURSIVE StandardHeaders(_)
StandardHeaders(cells) ==
    IF cells = <<>> THEN <<>>
    ELSE (IF Truthy(Head(cells)) THEN <<Lower(Str(Head(cells)))>> ELSE <<>>)
         \o StandardHeaders(Tail(cells))

\* "any(k in headers for k in keys)": a header equal to one of keys
HasHeader(headers, keys) == \E i \in 1..Len(headers) : headers[i] \in keys

\* has_date and has_desc and has_amount
StandardHasColumns(headers) ==
    /\ HasHeader(headers, {<<"d","a","t","e">>, <<"t","r","a","n","s","a","c","t","i","o","n"," ","d","a","t","e">>, <<"p","o","s","t","i","n","g"," ","d","a","t","e">>})
    /\ HasHeader(headers, {<<"d","e","s","c","r","i","p","t","i","o","n">>, <<"d","e","t","a","i","l","s">>, <<"p","a","r","t","i","c","u","l","a","r","s">>})
    /\ HasHeader(headers, {<<"a","m","o","u","n","t">>, <<"d","e","b","i","t">>, <<"a","m","t">>})

\* StandardParser.can_parse
Standard_can_parse(table) ==
    IF table = <<>> THEN Ret(FALSE)
    ELSE IF ~RowTruthy(table[1]) THEN Ret(FALSE)
    ELSE Ret(StandardHasColumns(StandardHeaders(table[1].cells)))

\* The record of a row whose three values have been read
StandardValues(d_str, desc_str, amt_str) ==
    IF ~Truthy(d_str) \/ ~Truthy(desc_str) \/ ~Truthy(amt_str) THEN <<>>
    ELSE IF parse_date(Strip(Str(d_str))) = NoDate THEN <<>>
    ELSE << Txn(parse_date(Strip(Str(d_str))), clean_description(desc_str.text),
                parse_amount(Strip(Str(amt_str))), FALSE, None) >>

\* The records one data row of a Standard table gives: none or one
Standard_row(row, date_idx, desc_idx, amt_idx) ==
    IF Len(row.cells) < Max({date_idx, desc_idx, amt_idx}) THEN <<>>
    ELSE StandardValues(row.cells[date_idx], row.cells[desc_idx],
                        row.cells[amt_idx])

RECURSIVE Standard_rows(_, _, _, _)
Standard_rows(rows, date_idx, desc_idx, amt_idx) ==
    IF rows = <<>> THEN <<>>
    ELSE Standard_row(Head(rows), date_idx, desc_idx, amt_idx)
         \o Standard_rows(Tail(rows), date_idx, desc_idx, amt_idx)

\* The rows of the table under the column indices: len(row) of an absent row
\* raises
StandardIndexed(table, date_idx, desc_idx, amt_idx) ==
    IF date_idx = 0 \/ desc_idx = 0 \/ amt_idx = 0 THEN Ret(<<>>)
    ELSE IF \E k \in 2..Len(table) : table[k].absent
    THEN Raise("TypeError", <<>>)
    ELSE Ret(Standard_rows(Tail(table), date_idx, desc_idx, amt_idx))

\* date_idx: the first of the headers that holds "date", 0 when none does
Standard_date_idx(headers) == FirstIndex(headers, {<<"d","a","t","e">>})

\* desc_idx
Standard_desc_idx(headers) ==
    FirstIndex(headers, {<<"d","e","s","c","r","i","p","t","i","o","n">>, <<"d","e","t","a","i","l","s">>, <<"p","a","r","t","i","c","u","l","a","r","s">>})

\* amt_idx
Standard_amt_idx(headers) == FirstIndex(headers, {<<"a","m","o","u","n","t">>, <<"d","e","b","i","t">>})

\* The column indices are counted in the headers, the list without the cells
\* of the header row that are None or empty
StandardColumns(table, headers) ==
    StandardIndexed(table, Standard_date_idx(headers),
                    Standard_desc_idx(headers), Standard_amt_idx(headers))

\* StandardParser.extract_transactions
Standard_extract(table) ==
    IF table = <<>> THEN Ret(<<>>)
    ELSE IF ~RowTruthy(table[1]) THEN Ret(<<>>)
    ELSE StandardColumns(table, StandardHeaders(table[1].cells))

(***************************************************************************)
(* parser.py: ParserFactory                                                *)
(***************************************************************************)
\* self.parsers, in the order of __init__
Parsers == <<"HDFC", "Axis", "Standard">>

\* BaseParser.name
ParserName(p) ==
    CASE p = "HDFC" -> <<"H","D","F","C">>
      [] p = "Axis" -> <<"A","x","i","s">>
      [] p = "Standard" -> <<"S","t","a","n","d","a","r","d">>

\* parser.can_parse(table)
can_parse(p, table) ==
    CASE p = "HDFC" -> HDFC_can_parse(table)
      [] p = "Axis" -> Axis_can_parse(table)
      [] p = "Standard" -> Standard_can_parse(table)

\* parser.extract_transactions(table)
parser_extract(p, table) ==
    CASE p = "HDFC" -> HDFC_extract(table)
      [] p = "Axis" -> Axis_extract(table)
      [] p = "Standard" -> Standard_extract(table)

\* "if parser.can_parse(table): return parser" for the outcome r of can_parse:
\* the exception, the parser, or otherwise what the rest of the loop gives
Accepts(p, r, otherwise) ==
    IF r.exc # "none" THEN Raise(r.exc, "None")
    ELSE IF r.val THEN Ret(p)
    ELSE otherwise

\* The first loop of get_parser from position k: the parser named by the hint,
\* when it accepts the table.  "None" stands for falling out of the loop.
RECURSIVE HintLoop(_, _, _)
HintLoop(k, table, bank) ==
    IF k > Len(Parsers) THEN Ret("None")
    ELSE IF Lower(ParserName(Parsers[k])) = Lower(bank.text)
    THEN Accepts(Parsers[k], can_parse(Parsers[k], table),
                 HintLoop(k + 1, table, bank))
    ELSE HintLoop(k + 1, table, bank)

\* The second loop of get_parser from position k: the first parser that accepts
RECURSIVE AutoDetect(_, _)
AutoDetect(k, table) ==
    IF k > Len(Parsers) THEN Ret("None")
    ELSE Accepts(Parsers[k], can_parse(Parsers[k], table),
                 AutoDetect(k + 1, table))

\* The second loop, entered when the first gave neither a parser nor an
\* exception
AfterHint(hinted, table) ==
    IF hinted.exc # "none" \/ hinted.val # "None" THEN hinted
    ELSE AutoDetect(1, table)

\* ParserFactory.get_parser: a parser's name, "None", or the exception a
\* can_parse raised
get_parser(table, bank) ==
    AfterHint(IF Truthy(bank) THEN HintLoop(1, table, bank) ELSE Ret("None"),
              table)

(***************************************************************************)
(* parser.py: the line scanner of extract_transactions                     *)
(***************************************************************************)
\* The first line of text that holds a line feed at index i, and the others
RECURSIVE SplitLines(_)
SplitAt(text, i) ==
    IF i = 0 THEN <<text>>
    ELSE <<SubSeq(text, 1, i - 1)>> \o SplitLines(From(text, i + 1))

\* text.split('\n')
SplitLines(text) ==
    SplitAt(text, MinOrZero({i \in 1..Len(text) : text[i] = "\n"}))

\* The indices at which the tokens of line.split() start
TokenStarts(line) ==
    {i \in 1..Len(line) :
        line[i] \notin Whitespace /\ (i = 1 \/ line[i - 1] \in Whitespace)}

\* re.match(r'[\d,.-]+(Cr|Dr)?$', token)
IsAmountToken(token) ==
    \/ token # <<>> /\ AllIn(token, Digit \cup {",", ".", "-"})
    \/ /\ Len(token) >= 3
       /\ SubSeq(token, Len(token) - 1, Len(token)) \in {<<"C","r">>, <<"D","r">>}
       /\ AllIn(SubSeq(token, 1, Len(token) - 2), Digit \cup {",", ".", "-"})

\* The record of a line whose date starts at index at, whose last token,
\* amount_part, starts at desc_end
ScanParts(line, at, desc_end, amount_part) ==
    IF ~IsAmountToken(amount_part) THEN <<>>
    ELSE IF parse_amount(amount_part) = 0 THEN <<>>
    ELSE IF ~(desc_end > at + 10) THEN <<>>
    ELSE IF parse_date(SubSeq(line, at, at + 9)) = NoDate THEN <<>>
    ELSE << Txn(parse_date(SubSeq(line, at, at + 9)),
                clean_description(Strip(SubSeq(line, at + 10, desc_end - 1))),
                parse_amount(amount_part), FALSE, None) >>

\* The record of a line whose first date starts at index at (0: no date)
ScanDated(line, at, desc_end) ==
    IF at = 0 \/ Cardinality(TokenStarts(line)) <= 3 THEN <<>>
    ELSE ScanParts(line, at, desc_end, Strip(From(line, desc_end)))

\* The records one line of page text gives: none or one
ScanLine(line) ==
    ScanDated(line,
              MinOrZero({i \in 1..Len(line) : DateAt(line, i)}),
              Max({0} \cup TokenStarts(line)))

RECURSIVE ScanLines(_)
ScanLines(lines) ==
    IF lines = <<>> THEN <<>> ELSE ScanLine(Head(lines)) \o ScanLines(Tail(lines))

\* The records the line scanner gives for the text of one page
ScanText(text) == IF text = <<>> THEN <<>> ELSE ScanLines(SplitLines(text))

(***************************************************************************)
(* The documents of the model.  A document is given page by page: each page *)
(* holds some of DocTables, in any order, and one of DocTexts.              *)
(***************************************************************************)
\* The most pages a document has, and the most tables in all
MaxPages == 2

MaxTables == 3

DocTables == <<
    \* an HDFC table: one matching line
    <<Row(<<Some(<<"D","o","m","e","s","t","i","c"," ","T","r","a","n","s","a","c","t","i","o","n","s">>)>>),
       Row(<<Some(<<"0","1","/","0","2","/","2","0","2","4"," ","|"," ","1","0",":","1","5"," ","A","M","A","Z","O","N"," ","P","A","Y"," ","1",",","2","3","4",".","5","6"," ","X">>)>>)>>,
    \* an Axis table: a credit, and an amount written with a minus sign
    <<Row(<<Some(<<"D","A","T","E">>),
            Some(<<"T","R","A","N","S","A","C","T","I","O","N"," ","D","E","T","A","I","L","S">>),
            Some(<<"M","E","R","C","H","A","N","T"," ","C","A","T","E","G","O","R","Y">>),
            Some(<<"A","M","O","U","N","T"," ","(","R","s",".",")">>)>>),
       Row(<<Some(<<"0","2","/","0","2","/","2","0","2","4">>),
            Some(<<"U","B","E","R"," ","T","R","I","P">>),
            Some(<<"T","R","A","V","E","L">>),
            Some(<<"2","5","0",".","0","0"," ","C","r">>)>>),
       Row(<<Some(<<"0","3","/","0","2","/","2","0","2","4">>),
            Some(<<"R","E","V","E","R","S","A","L">>),
            Some(<<"S","H","O","P","P","I","N","G">>),
            Some(<<"-","5","0","0",".","0","0">>)>>)>>,
    \* a Standard table
    <<Row(<<Some(<<"D","a","t","e">>),
            Some(<<"D","e","s","c","r","i","p","t","i","o","n">>),
            Some(<<"A","m","o","u","n","t">>)>>),
       Row(<<Some(<<"0","5","/","0","2","/","2","0","2","4">>),
            Some(<<"S","W","I","G","G","Y">>),
            Some(<<"3","0","0",".","0","0">>)>>)>>,
    \* a Standard table with an absent row after a good one
    <<Row(<<Some(<<"D","a","t","e">>),
            Some(<<"D","e","s","c","r","i","p","t","i","o","n">>),
            Some(<<"A","m","o","u","n","t">>)>>),
       Row(<<Some(<<"0","6","/","0","2","/","2","0","2","4">>),
            Some(<<"Z","O","M","A","T","O">>),
            Some(<<"1","2","0",".","0","0">>)>>),
       AbsentRow>>,
    \* a table both Axis and Standard accept
    <<Row(<<Some(<<"T","r","a","n","s","a","c","t","i","o","n"," ","D","a","t","e">>),
            Some(<<"D","e","s","c","r","i","p","t","i","o","n">>),
            Some(<<"A","m","o","u","n","t">>)>>),
       Row(<<Some(<<"0","7","/","0","2","/","2","0","2","4">>),
            Some(<<"N","E","T","F","L","I","X">>),
            Some(<<"1","9","9",".","0","0">>)>>)>>,
    \* a table whose first row is empty
    <<Row(<<>>),
       Row(<<Some(<<"0","8","/","0","2","/","2","0","2","4">>),
            Some(<<"X">>),
            Some(<<"1",".","0","0">>)>>)>>,
    \* a table no strategy accepts
    <<Row(<<Some(<<"R","e","w","a","r","d"," ","P","o","i","n","t","s">>),
            Some(<<"B","a","l","a","n","c","e">>)>>),
       Row(<<Some(<<"1","0","0">>),
            Some(<<"2","0","0">>)>>)>>,
    \* a table with no rows
    <<>>
>>

DocTexts == <<
    \* no text
    <<>>,
    \* a line with a date and an amount written with a minus sign
    <<"S","t","a","t","e","m","e","n","t"," ","o","f"," ","a","c","c","o","u","n","t","\n","0","1","/","0","2","/","2","0","2","4"," ","R","E","F","U","N","D"," ","A","M","A","Z","O","N"," ","I","N"," ","-","5","0","0",".","0","0">>,
    \* a line with a date and a Dr amount
    <<"0","3","/","0","2","/","2","0","2","4"," ","U","B","E","R"," ","T","R","I","P"," ","B","L","R"," ","2","5","0",".","0","0","D","r">>,
    \* text without a transaction line
    <<"P","a","g","e"," ","2"," ","o","f"," ","2">>
>>

\* The bank hint upload_statement hands over: None for a card without a bank
Banks == {None,
          Some(<<"h","d","f","c">>),
          Some(<<"A","X","I","S">>),
          Some(<<"s","t","a","n","d","a","r","d">>),
          Some(<<"i","c","i","c","i">>)}

(***************************************************************************)
(* parser.py: extract_transactions, one call                               *)
(***************************************************************************)
VARIABLES
    pc,            \* where the call stands: "open", "page", "tables", "fallback", "done"
    bank,          \* the bank hint of the call
    pageNo,        \* the number of the page being processed (0 before the first)
    tablesSeen,    \* how many tables of the document have been processed
    transactions,  \* the list extract_transactions accumulates and returns
    origin,        \* for each record of transactions: its page and "table" or "fallback"
    scanned,       \* the pages whose text the line scanner was run on
    failures,      \* how many tables had their strategy raise so far
    event,         \* the last step: its kind, table, parser and the list before it
    propagated,    \* whether an exception left extract_transactions
    db,            \* the transactions table of the database
    calls,         \* for each row of db: whether ingestion called categorizer.predict
    report,        \* the last report computed by get_report
    classifier,    \* the TransactionCategorizer of the process and its artifact
    probe          \* a call of one function: its name, argument and result

vars == <<pc, bank, pageNo, tablesSeen, transactions, origin, scanned, failures,
          event, propagated, db, calls, report, classifier, probe>>

Event(kind, table, parser, before) ==
    [kind |-> kind, table |-> table, parser |-> parser, before |-> before]

\* What the body of "for table in tables" gives for one table.  next is "tables"
\* when the loop goes on to the next table, "abort" when an exception leaves
\* the loop for the handler of the whole document.
Step(next, kind, parser, list) ==
    [next |-> next, kind |-> kind, parser |-> parser, list |-> list]

\* The extraction without the table's own try: the exception of the strategy
\* leaves the loop over the tables
TryExtractUncaught(parser, result, acc) ==
    IF result.exc # "none" THEN Step("abort", "parser_failed", parser, acc)
    ELSE Step("tables", "extracted", parser, acc \o result.val)

\* The table's own try: "result = parser.extract_transactions(table)", the
\* extend of the list, and "except Exception ... continue"
TryExtract(parser, result, acc) ==
    IF result.exc # "none" THEN Step("tables", "parser_failed", parser, acc)
    ELSE Step("tables", "extracted", parser, acc \o result.val)

\* "parser = factory.get_parser(table, bank)" and "if parser:"
WithParser(table, chosen, acc) ==
    IF chosen.exc # "none" THEN Step("abort", "can_parse_raised", "None", acc)
    ELSE IF chosen.val = "None" THEN Step("tables", "no_parser", "None", acc)
    ELSE TryExtract(chosen.val, parser_extract(chosen.val, table), acc)

\* The body of "for table in tables" for one table: the print of its size, the
\* choice of the parser, the extraction under the table's own try.
ProcessTable(table, hint, acc) ==
    IF table # <<>> /\ table[1].absent
    THEN Step("abort", "size_raised", "None", acc)
    ELSE WithParser(table, get_parser(table, hint), acc)

\* The condition of the fallback turned round: "if transactions"
FallbackInverted(acc) == acc # <<>>

\* The fallback without its condition: the text of every page is scanned
FallbackAlways(acc) == TRUE

\* "if not transactions": whether the text of the page is scanned
FallbackWanted(acc) == acc = <<>>

\* A handler that raises again: the exception leaves the call
HandleExceptionReraise(acc) == [propagated |-> TRUE, list |-> acc]

\* The handler of the whole document, "except Exception", and the return after
\* it: the exception does not leave the call and the list so far is returned.
HandleException(acc) == [propagated |-> FALSE, list |-> acc]

\* n entries of origin for records of one page
Origins(n, page, src) == [i \in 1..n |-> [page |-> page, src |-> src]]

NoReport == [computed |-> FALSE]

InitCall ==
    /\ pc = "open"
    /\ bank \in Banks
    /\ pageNo = 0
    /\ tablesSeen = 0
    /\ transactions = <<>>
    /\ origin = <<>>
    /\ scanned = {}
    /\ failures = 0
    /\ event = Event("call", 0, "None", <<>>)
    /\ propagated = FALSE

IdleCall ==
    /\ pc = "idle"
    /\ bank = None
    /\ pageNo = 0
    /\ tablesSeen = 0
    /\ transactions = <<>>
    /\ origin = <<>>
    /\ scanned = {}
    /\ failures = 0
    /\ event = Event("idle", 0, "None", <<>>)
    /\ propagated = FALSE

IdleStore ==
    /\ db = <<>>
    /\ calls = <<>>
    /\ report = NoReport

\* No function is being called on its own
NoProbe == [fn |-> "none"]

\* The classifier is not looked at
NoClassifier == [state |-> "unused"]

IdleRest ==
    /\ classifier = NoClassifier
    /\ probe = NoProbe

Init == InitCall /\ IdleStore /\ IdleRest

\* An exception reaches the handler of the whole document
Abort(kind, table) ==
    /\ pc' = "done"
    /\ propagated' = HandleException(transactions).propagated
    /\ transactions' = HandleException(transactions).list
    /\ event' = Event(kind, table, "None", transactions)
    /\ UNCHANGED <<bank, pageNo, tablesSeen, origin, scanned, failures>>

\* pdfplumber.open succeeds
Open ==
    /\ pc = "open"
    /\ pc' = "page"
    /\ event' = Event("opened", 0, "None", transactions)
    /\ UNCHANGED <<bank, pageNo, tablesSeen, transactions, origin, scanned,
                   failures, propagated, db, calls, report, classifier, probe>>

\* pdfplumber.open raises: the file is no document, or the password is wrong
OpenFails ==
    /\ pc = "open"
    /\ Abort("open_failed", 0)
    /\ UNCHANGED <<db, calls, report, classifier, probe>>

\* The next page of the document
NextPage ==
    /\ pc = "page"
    /\ pageNo < MaxPages
    /\ pageNo' = pageNo + 1
    /\ pc' = "tables"
    /\ event' = Event("page", 0, "None", transactions)
    /\ UNCHANGED <<bank, tablesSeen, transactions, origin, scanned, failures,
                   propagated, db, calls, report, classifier, probe>>

\* page.extract_tables() or page.extract_text() raises
PageFails ==
    /\ pc \in {"tables", "fallback"}
    /\ Abort("page_failed", 0)
    /\ UNCHANGED <<db, calls, report, classifier, probe>>

\* The state after table k was processed with the outcome step
TableStep(k, step) ==
    IF step.next = "abort"
    THEN /\ Abort(step.kind, k)
         /\ UNCHANGED <<db, calls, report, classifier, probe>>
    ELSE /\ pc' = "tables"
         /\ tablesSeen' = tablesSeen + 1
         /\ transactions' = step.list
         /\ origin' = origin \o Origins(Len(step.list) - Len(transactions),
                                        pageNo, "table")
         /\ failures' = IF step.kind = "parser_failed" THEN failures + 1
                        ELSE failures
         /\ event' = Event(step.kind, k, step.parser, transactions)
         /\ UNCHANGED <<bank, pageNo, scanned, propagated, db, calls, report, classifier, probe>>

\* The next table of the page
Table(k) ==
    /\ pc = "tables"
    /\ tablesSeen < MaxTables
    /\ TableStep(k, ProcessTable(DocTables[k], bank, transactions))

\* The tables of the page are done
EndTables ==
    /\ pc = "tables"
    /\ pc' = "fallback"
    /\ event' = Event("end_tables", 0, "None", transactions)
    /\ UNCHANGED <<bank, pageNo, tablesSeen, transactions, origin, scanned,
                   failures, propagated, db, calls, report, classifier, probe>>

\* The line scanner has run on the text of the page and found these records
Scanned(found) ==
    /\ scanned' = scanned \cup {pageNo}
    /\ transactions' = transactions \o found
    /\ origin' = origin \o Origins(Len(found), pageNo, "fallback")
    /\ event' = Event("scanned", 0, "None", transactions)

\* The fallback of the page: skipped when the list holds a record, and otherwise
\* the line scanner runs on the text of the page
Fallback(x) ==
    /\ pc = "fallback"
    /\ pc' = "page"
    /\ IF FallbackWanted(transactions)
       THEN Scanned(ScanText(DocTexts[x]))
       ELSE /\ x = 1
            /\ event' = Event("not_scanned", 0, "None", transactions)
            /\ UNCHANGED <<scanned, transactions, origin>>
    /\ UNCHANGED <<bank, pageNo, tablesSeen, failures, propagated, db, calls, report, classifier, probe>>

\* The pages are done: the list is returned
EndDocument ==
    /\ pc = "page"
    /\ pc' = "done"
    /\ event' = Event("returned", 0, "None", transactions)
    /\ UNCHANGED <<bank, pageNo, tablesSeen, transactions, origin, scanned,
                   failures, propagated, db, calls, report, classifier, probe>>

(***************************************************************************)
(* categorizer.py: what predict can return.  Ingestion takes any of these   *)
(* labels; the classifier itself is modelled further down.                  *)
(***************************************************************************)
Labels == {<<"T","r","a","v","e","l">>, <<"F","o","o","d"," ","&"," ","D","r","i","n","k">>, <<"G","r","o","c","e","r","i","e","s">>, <<"S","h","o","p","p","i","n","g">>, <<"B","i","l","l","s">>,
           <<"H","e","a","l","t","h">>, <<"O","t","h","e","r">>, <<"U","n","c","a","t","e","g","o","r","i","z","e","d">>}

(***************************************************************************)
(* cards.py: upload_statement, the ingestion of the extracted records       *)
(***************************************************************************)
BillPaymentMarkers ==
    {<<"B","B","P","S">>, <<"M","B","/","I","B"," ","P","A","Y","M","E","N","T">>, <<"N","E","T","B","A","N","K","I","N","G"," ","T","R","A","N","S","F","E","R">>, <<"D","U","A","L"," ","P","Y","T">>}

CashbackMarker == <<"C","A","S","H","B","A","C","K">>

HiddenChargeMarkers == {<<"J","O","I","N","I","N","G"," ","F","E","E">>, <<"G","S","T">>, <<"F","U","E","L"," ","S","U","R","C","H","A","R","G","E">>}

HiddenCharges == <<"H","i","d","d","e","n"," ","C","h","a","r","g","e","s">>

\* bank_name: the hint handed to extract_transactions for the card's bank
bank_name(card_bank) ==
    IF Truthy(card_bank) /\ card_bank.text # <<"o","t","h","e","r">> THEN card_bank ELSE None

is_bill_payment(description_upper) ==
    ContainsAny(description_upper, BillPaymentMarkers)

\* The cashback flag with "or" in place of "and"
is_cashback_either(description_upper, credit) ==
    Contains(description_upper, CashbackMarker) \/ credit

\* The cashback flag without the test of the direction
is_cashback_any_direction(description_upper, credit) ==
    Contains(description_upper, CashbackMarker)

is_cashback(description_upper, credit) ==
    Contains(description_upper, CashbackMarker) /\ credit

is_hidden_charge(description_upper) ==
    ContainsAny(description_upper, HiddenChargeMarkers)

\* The category resolution with the first two branches exchanged: the issuer's
\* category wins over the override for hidden charges
ResolveCategoryIssuerFirst(t_data, hidden, label) ==
    IF Truthy(t_data.category)
    THEN [category |-> t_data.category.text, predict |-> FALSE]
    ELSE IF hidden THEN [category |-> HiddenCharges, predict |-> FALSE]
    ELSE [category |-> label, predict |-> TRUE]

\* The category resolution: the override for hidden charges, the issuer's
\* category, or the label categorizer.predict returns; predict tells whether
\* the branch that calls categorizer.predict was taken
ResolveCategory(t_data, hidden, label) ==
    IF hidden THEN [category |-> HiddenCharges, predict |-> FALSE]
    ELSE IF Truthy(t_data.category)
    THEN [category |-> t_data.category.text, predict |-> FALSE]
    ELSE [category |-> label, predict |-> TRUE]

\* The body of "for t_data in transactions_data" for one record whose
\* description was upper-cased: models.Transaction(...); label is what predict
\* returns when it is called
NewTransaction(t_data, description_upper, label) ==
    [date |-> t_data.date,
     description |-> t_data.description,
     amount |-> t_data.amount,
     currency |-> t_data.currency,
     category |-> ResolveCategory(t_data, is_hidden_charge(description_upper),
                                  label).category,
     is_credit |-> t_data.is_credit,
     is_bill_payment |-> is_bill_payment(description_upper),
     is_cashback |-> is_cashback(description_upper, t_data.is_credit),
     is_hidden_charge |-> is_hidden_charge(description_upper)]

\* What the ingestion of one record did: the record, whether predict was
\* called, and the label it returned
IngestLog(t_data, label) ==
    [t_data |-> t_data,
     predict |-> ResolveCategory(t_data,
                                 is_hidden_charge(Upper(t_data.description)),
                                 label).predict,
     label |-> label]

\* The rows of one statement: labels[i] is what predict returns for record i
IngestAll(transactions_data, labels) ==
    [i \in 1..Len(transactions_data) |->
        NewTransaction(transactions_data[i],
                       Upper(transactions_data[i].description), labels[i])]

IngestLogs(transactions_data, labels) ==
    [i \in 1..Len(transactions_data) |->
        IngestLog(transactions_data[i], labels[i])]

\* extract_transactions for a document of one page that holds one table and no
\* text
ExtractDocument(table, hint) == ProcessTable(table, hint, <<>>).list

(***************************************************************************)
(* cards.py: get_report                                                    *)
(***************************************************************************)
\* The first loop without the "continue" for hidden charges
IsSpendingWithHidden(t) ==
    IF t.is_bill_payment THEN FALSE
    ELSE IF t.is_cashback THEN FALSE
    ELSE TRUE

\* Whether the first loop reaches the sum for t: none of the three "continue"
IsSpending(t) ==
    IF t.is_hidden_charge THEN FALSE
    ELSE IF t.is_bill_payment THEN FALSE
    ELSE IF t.is_cashback THEN FALSE
    ELSE TRUE

\* spending_transactions
spending_transactions(all_transactions) == SelectSeq(all_transactions, IsSpending)

\* "total += t.amount" for a debit, "total -= t.amount" for a credit
DebitAdds(total, t) == IF ~t.is_credit THEN total + t.amount ELSE total - t.amount

\* The second loop without the branch for a debit: every cashback adds
CreditAddsAlways(total, t) == total + t.amount

\* "total += t.amount" for a credit, "total -= t.amount" for a debit
CreditAdds(total, t) == IF t.is_credit THEN total + t.amount ELSE total - t.amount

\* total_spend after the first loop ran over the rows, from total
RECURSIVE SpendLoop(_, _)
SpendLoop(total, rows) ==
    IF rows = <<>> THEN total
    ELSE SpendLoop(IF IsSpending(Head(rows)) THEN DebitAdds(total, Head(rows))
                   ELSE total,
                   Tail(rows))

\* total_cashback after the second loop ran over the rows, from total
RECURSIVE CashbackLoop(_, _)
CashbackLoop(total, rows) ==
    IF rows = <<>> THEN total
    ELSE CashbackLoop(IF Head(rows).is_cashback THEN CreditAdds(total, Head(rows))
                      ELSE total,
                      Tail(rows))

IsHiddenCharge(t) == t.is_hidden_charge

\* sum(t.amount for t in rows)
RECURSIVE AmountSum(_)
AmountSum(rows) ==
    IF rows = <<>> THEN 0 ELSE Head(rows).amount + AmountSum(Tail(rows))

\* category_spend.get(c, 0) after the loop ran over the rows, from total
RECURSIVE CategoryLoop(_, _, _)
CategoryLoop(total, c, rows) ==
    IF rows = <<>> THEN total
    ELSE CategoryLoop(IF Head(rows).category = c THEN DebitAdds(total, Head(rows))
                      ELSE total,
                      c, Tail(rows))

\* category_spend: a key for each category of a spending transaction
category_spend(spending) ==
    [c \in {spending[i].category : i \in 1..Len(spending)} |->
        CategoryLoop(0, c, spending)]

\* The report dictionary, from the values of the loops; over is the rows read
ReportOf(all_transactions, spending, spend, cashback) ==
    [computed |-> TRUE,
     over |-> all_transactions,
     total_spend |-> spend,
     total_cashback |-> cashback,
     total_hidden_charges |-> AmountSum(SelectSeq(all_transactions, IsHiddenCharge)),
     net_spend |-> spend - cashback,
     category_spend |-> category_spend(spending),
     transaction_count |->
         Cardinality({i \in 1..Len(spending) : ~spending[i].is_credit}),
     cashback_count |->
         Cardinality({i \in 1..Len(all_transactions) :
             all_transactions[i].is_cashback /\ all_transactions[i].is_credit}),
     cashback_reversal_count |->
         Cardinality({i \in 1..Len(all_transactions) :
             all_transactions[i].is_cashback /\ ~all_transactions[i].is_credit}),
     hidden_charge_count |->
         Cardinality({i \in 1..Len(all_transactions) :
             all_transactions[i].is_hidden_charge}),
     refund_count |->
         Cardinality({i \in 1..Len(spending) : spending[i].is_credit})]

\* get_report over the rows of the card
get_report(all_transactions) ==
    ReportOf(all_transactions,
             spending_transactions(all_transactions),
             SpendLoop(0, all_transactions),
             CashbackLoop(0, all_transactions))

(***************************************************************************)
(* The statements of the ingestion model: each is a document of one table.  *)
(***************************************************************************)
\* The most rows the transactions table holds
MaxRows == 2

IngestTables == <<
    \* Axis: an issuer category that is kept, and one a hidden charge overrides
    <<Row(<<Some(<<"D","A","T","E">>), Some(<<"T","R","A","N","S","A","C","T","I","O","N"," ","D","E","T","A","I","L","S">>),
            Some(<<"M","E","R","C","H","A","N","T"," ","C","A","T","E","G","O","R","Y">>), Some(<<"A","M","O","U","N","T"," ","(","R","s",".",")">>)>>),
       Row(<<Some(<<"0","2","/","0","2","/","2","0","2","4">>), Some(<<"U","B","E","R"," ","T","R","I","P">>), Some(<<"T","R","A","V","E","L">>),
            Some(<<"2","5","0",".","0","0">>)>>),
       Row(<<Some(<<"0","3","/","0","2","/","2","0","2","4">>), Some(<<"F","u","e","l"," ","S","u","r","c","h","a","r","g","e"," ","w","a","i","v","e","r">>), Some(<<"F","U","E","L">>),
            Some(<<"1","0",".","0","0"," ","C","r">>)>>)>>,
    \* Axis: the cashback marker on a credit that is a hidden charge too, and on
    \* a debit
    <<Row(<<Some(<<"D","A","T","E">>), Some(<<"T","R","A","N","S","A","C","T","I","O","N"," ","D","E","T","A","I","L","S">>),
            Some(<<"M","E","R","C","H","A","N","T"," ","C","A","T","E","G","O","R","Y">>), Some(<<"A","M","O","U","N","T"," ","(","R","s",".",")">>)>>),
       Row(<<Some(<<"0","4","/","0","2","/","2","0","2","4">>), Some(<<"C","a","s","h","b","a","c","k"," ","G","S","T"," ","r","e","v","e","r","s","a","l">>), None,
            Some(<<"5",".","0","0"," ","C","r">>)>>),
       Row(<<Some(<<"0","5","/","0","2","/","2","0","2","4">>), Some(<<"C","A","S","H","B","A","C","K"," ","R","E","V","E","R","S","E","D">>), Some(<<"O","F","F","E","R","S">>),
            Some(<<"5",".","0","0">>)>>)>>,
    \* HDFC: a credit with the bill-payment and the cashback marker, and a plain
    \* debit; no issuer category
    <<Row(<<Some(<<"0","6","/","0","2","/","2","0","2","4"," ","|"," ","1","0",":","1","5"," ","B","B","P","S"," ","C","A","S","H","B","A","C","K"," ","+"," ","C"," ","1",",","0","0","0",".","0","0">>)>>),
       Row(<<Some(<<"0","7","/","0","2","/","2","0","2","4"," ","|"," ","1","1",":","0","0"," ","S","W","I","G","G","Y"," ","B","A","N","G","A","L","O","R","E"," ","3","0","0",".","0","0"," ","X">>)>>)>>,
    \* Standard: a bill payment
    <<Row(<<Some(<<"D","a","t","e">>), Some(<<"D","e","s","c","r","i","p","t","i","o","n">>), Some(<<"A","m","o","u","n","t">>)>>),
       Row(<<Some(<<"0","8","/","0","2","/","2","0","2","4">>), Some(<<"N","E","T","B","A","N","K","I","N","G"," ","T","R","A","N","S","F","E","R">>), Some(<<"5","0","0",".","0","0">>)>>)>>
>>

\* card.bank: the issuer codes of a card
CardBanks == Banks \cup {Some(<<"o","t","h","e","r">>)}

(***************************************************************************)
(* cards.py: upload_statement and get_report as operations on the table     *)
(***************************************************************************)
\* The loop over transactions_data and the commit: labels[i] is what predict
\* returns for record i
Store(transactions_data, labels) ==
    /\ Len(db) + Len(transactions_data) <= MaxRows
    /\ db' = db \o IngestAll(transactions_data, labels)
    /\ calls' = calls \o IngestLogs(transactions_data, labels)

StoreAny(transactions_data) ==
    \E labels \in [1..Len(transactions_data) -> Labels] :
        Store(transactions_data, labels)

\* upload_statement for one file, the statement IngestTables[k], on a card of
\* the bank card_bank
Upload(k, card_bank) ==
    /\ pc = "idle"
    /\ Len(db) < MaxRows
    /\ StoreAny(ExtractDocument(IngestTables[k], bank_name(card_bank)))
    /\ UNCHANGED <<pc, bank, pageNo, tablesSeen, transactions, origin, scanned,
                   failures, event, propagated, report, classifier, probe>>

\* get_report for the card
Report ==
    /\ pc = "idle"
    /\ report' = get_report(db)
    /\ UNCHANGED <<pc, bank, pageNo, tablesSeen, transactions, origin, scanned,
                   failures, event, propagated, db, calls, classifier, probe>>

InitIngest == IdleCall /\ IdleStore /\ IdleRest

NextIngest ==
    \/ \E k \in 1..Len(IngestTables), card_bank \in CardBanks : Upload(k, card_bank)
    \/ Report

SpecIngest == InitIngest /\ [][NextIngest]_vars

(***************************************************************************)
(* models.py: the rows the transactions table can hold.  get_report reads   *)
(* the table as stored, whatever wrote the rows.                            *)
(***************************************************************************)
StoredRow(amt, cat, credit, bill, cashback, hidden) ==
    [date |-> <<2024, 2, 1>>, description |-> <<"X">>, amount |-> amt,
     currency |-> "INR", category |-> cat, is_credit |-> credit,
     is_bill_payment |-> bill, is_cashback |-> cashback,
     is_hidden_charge |-> hidden]

StoredRows ==
    { StoredRow(10000, <<"T","r","a","v","e","l">>, FALSE, FALSE, FALSE, FALSE),
      StoredRow(25000, <<"S","h","o","p","p","i","n","g">>, FALSE, FALSE, FALSE, FALSE),
      StoredRow(2500, <<"T","r","a","v","e","l">>, TRUE, FALSE, FALSE, FALSE),
      StoredRow(30000, <<"S","h","o","p","p","i","n","g">>, TRUE, FALSE, FALSE, FALSE),
      StoredRow(1800, HiddenCharges, FALSE, FALSE, FALSE, TRUE),
      StoredRow(900, HiddenCharges, TRUE, FALSE, FALSE, TRUE),
      StoredRow(50000, <<"B","i","l","l","s">>, FALSE, TRUE, FALSE, FALSE),
      StoredRow(50000, <<"O","t","h","e","r">>, TRUE, TRUE, FALSE, FALSE),
      StoredRow(700, <<"O","t","h","e","r">>, TRUE, FALSE, TRUE, FALSE),
      StoredRow(300, <<"O","t","h","e","r">>, FALSE, FALSE, TRUE, FALSE),
      StoredRow(400, HiddenCharges, TRUE, FALSE, TRUE, TRUE),
      StoredRow(600, <<"S","h","o","p","p","i","n","g">>, TRUE, TRUE, TRUE, FALSE) }

\* A row of the card is in the table
StoreRow(row) ==
    /\ pc = "idle"
    /\ Len(db) < MaxRows
    /\ db' = Append(db, row)
    /\ UNCHANGED <<pc, bank, pageNo, tablesSeen, transactions, origin, scanned,
                   failures, event, propagated, calls, report, classifier, probe>>

NextReport ==
    \/ \E row \in StoredRows : StoreRow(row)
    \/ Report

SpecReport == InitIngest /\ [][NextReport]_vars

(***************************************************************************)
(* categorizer.py: the TransactionCategorizer of the process.  A held model *)
(* is "None" (Python's None), "stored" (the pipeline unpickled from the     *)
(* artifact) or "seed" (the pipeline fitted on the seed corpus).  The       *)
(* artifact is the file MODEL_PATH.                                         *)
(***************************************************************************)
\* The most predict calls and the most train calls on the classifier
MaxCalls == 2

Uncategorized == <<"U","n","c","a","t","e","g","o","r","i","z","e","d">>

\* The labels of the seed corpus: what a fitted pipeline predicts
ModelClasses == Labels \ {Uncategorized}

\* The file MODEL_PATH: missing, there but not loadable, or the pickle of m
Absent == [exists |-> FALSE, loadable |-> FALSE, pickle |-> "None"]

Corrupt == [exists |-> TRUE, loadable |-> FALSE, pickle |-> "None"]

Pickled(m) == [exists |-> TRUE, loadable |-> TRUE, pickle |-> m]

Artifacts == {Absent, Corrupt, Pickled("None"), Pickled("stored")}

\* What self.model.predict([description])[0] gives: a label, or an exception
PredictOutcomes == {Ret(l) : l \in ModelClasses} \cup {Raise("Exception", <<>>)}

Descriptions == {<<"S","W","I","G","G","Y"," ","B","A","N","G","A","L","O","R","E">>, <<"U","B","E","R"," ","T","R","I","P">>, <<>>}

NoPrediction == [called |-> FALSE]

\* __init__ up to the call of load_model: no model is held.  initial is the
\* artifact the process found, fits and writes count the calls of fit and the
\* writes of the artifact.
Unbuilt(artifact) ==
    [state |-> "unbuilt", model |-> "None", artifact |-> artifact,
     initial |-> artifact, fits |-> 0, writes |-> 0, predicts |-> 0,
     trains |-> 0, last |-> NoPrediction]

\* save_model: open(MODEL_PATH, "wb") and pickle.dump; when the file cannot be
\* written the exception leaves the constructor
save_model(c, writable) ==
    IF writable
    THEN [c EXCEPT !.artifact = Pickled(c.model), !.writes = @ + 1,
                   !.state = "built"]
    ELSE [c EXCEPT !.state = "failed"]

\* train_initial_model: a new pipeline is fitted on the seed corpus and saved
train_initial_model(c, writable) ==
    save_model([c EXCEPT !.model = "seed", !.fits = @ + 1], writable)

\* load_model
load_model(c, writable) ==
    IF c.artifact.exists
    THEN IF c.artifact.loadable
         THEN [c EXCEPT !.model = c.artifact.pickle, !.state = "built"]
         ELSE train_initial_model(c, writable)
    ELSE train_initial_model(c, writable)

\* predict without its try: the exception of the pipeline leaves predict
predict_unguarded(model, outcome) ==
    IF model = "None" THEN Ret(Uncategorized) ELSE outcome

\* predict: outcome is what the pipeline does when it is asked
predict(model, outcome) ==
    IF model = "None" THEN Ret(Uncategorized)
    ELSE IF outcome.exc # "none" THEN Ret(Uncategorized)
    ELSE Ret(outcome.val)

\* A train that fits the pipeline again and saves it
train_refit(c) ==
    [c EXCEPT !.model = "seed", !.artifact = Pickled("seed"),
              !.fits = @ + 1,
              !.writes = @ + 1]

\* train: the body is "pass"
train(c) == c

\* categorizer = TransactionCategorizer()
Construct(writable) ==
    /\ classifier.state = "unbuilt"
    /\ classifier' = load_model(classifier, writable)
    /\ UNCHANGED <<pc, bank, pageNo, tablesSeen, transactions, origin, scanned,
                   failures, event, propagated, db, calls, report, probe>>

\* categorizer.predict(description)
Predict(description, outcome) ==
    /\ classifier.state = "built"
    /\ classifier.predicts < MaxCalls
    /\ classifier' =
           [classifier EXCEPT !.predicts = @ + 1,
                !.last = [called |-> TRUE, description |-> description,
                          outcome |-> outcome,
                          result |-> predict(classifier.model, outcome)]]
    /\ UNCHANGED <<pc, bank, pageNo, tablesSeen, transactions, origin, scanned,
                   failures, event, propagated, db, calls, report, probe>>

\* categorizer.train(descriptions, categories)
Train ==
    /\ classifier.state = "built"
    /\ classifier.trains < MaxCalls
    /\ classifier' = [train(classifier) EXCEPT !.trains = @ + 1]
    /\ UNCHANGED <<pc, bank, pageNo, tablesSeen, transactions, origin, scanned,
                   failures, event, propagated, db, calls, report, probe>>

InitClassifier ==
    /\ IdleCall
    /\ IdleStore
    /\ probe = NoProbe
    /\ classifier \in {Unbuilt(a) : a \in Artifacts}

NextClassifier ==
    \/ \E writable \in BOOLEAN : Construct(writable)
    \/ \E description \in Descriptions, outcome \in PredictOutcomes :
           Predict(description, outcome)
    \/ Train

SpecClassifier == InitClassifier /\ [][NextClassifier]_vars

(***************************************************************************)
(* utils.py: the functions called on their own, each on a text of a bounded *)
(* set.  probe holds the text, and after the call the function and what it  *)
(* returned.                                                                *)
(***************************************************************************)
\* The greatest length of a generated text
MaxText == 5

\* Every text of at most n characters of an alphabet
Texts(alphabet, n) == UNION {[1..k -> alphabet] : k \in 0..n}

\* The digits after the first '.' of a text are at most two: the amounts that
\* hundredths carry exactly
TwoPlaces(t) ==
    \A i \in 1..Len(t) :
        (t[i] = "." /\ \A j \in 1..(i - 1) : t[j] # ".")
            => Cardinality({j \in (i + 1)..Len(t) : t[j] \in Digit}) <= 2

CleanInputs == Texts({"a", "b", " ", "\n", "\t"}, MaxText)

AmountInputs == {t \in Texts({"1", "0", ".", "-", ","}, MaxText) : TwoPlaces(t)}

\* Amount cells: white space, a '+', a number, a marker
MarkedAmounts ==
    { lead \o plus \o body \o mark :
        lead \in {<<>>, <<" ">>},
        plus \in {<<>>, <<"+">>, <<"+"," ">>},
        body \in {<<"1",",","0","0","0",".","0","0">>, <<"5","0","0",".","0","0">>, <<"-","5">>, <<>>},
        mark \in {<<>>, <<" ","C","r">>, <<" ","D","r">>, <<"C","r">>, <<"D","r">>, <<" ","c","r">>, <<" ","C","R">>, <<" ","C","r"," ">>,
                  <<" ","D","r"," ","C","r">>, <<" ","C","r"," ","D","r">>} }

DetectInputs == MarkedAmounts \cup Texts({"+", "C", "D", "r", " ", "5"}, MaxText - 1)

ProbeInputs == CleanInputs \cup AmountInputs \cup DetectInputs

Input(arg) == [fn |-> "input", arg |-> arg]

Called(fn, arg, out) == [fn |-> fn, arg |-> arg, out |-> out]

\* The rest of the state of a specification of single calls
ProbeOnly ==
    /\ IdleCall
    /\ IdleStore
    /\ classifier = NoClassifier

ProbeFrame ==
    UNCHANGED <<pc, bank, pageNo, tablesSeen, transactions, origin, scanned,
                failures, event, propagated, db, calls, report, classifier>>

CallParseAmount ==
    /\ probe.fn = "input"
    /\ probe.arg \in AmountInputs
    /\ probe' = Called("parse_amount", probe.arg, parse_amount(probe.arg))
    /\ ProbeFrame

CallCleanDescription ==
    /\ probe.fn = "input"
    /\ probe.arg \in CleanInputs
    /\ probe' = Called("clean_description", probe.arg,
                       clean_description(probe.arg))
    /\ ProbeFrame

CallDetectCredit ==
    /\ probe.fn = "input"
    /\ probe.arg \in DetectInputs
    /\ probe' = Called("detect_credit_transaction", probe.arg,
                       detect_credit_transaction(probe.arg))
    /\ ProbeFrame

InitText == ProbeOnly /\ probe \in {Input(t) : t \in ProbeInputs}

NextText ==
    \/ CallParseAmount
    \/ CallCleanDescription
    \/ CallDetectCredit

SpecText == InitText /\ [][NextText]_vars

(***************************************************************************)
(* parser.py: the strategies called on their own, each on a table of a      *)
(* bounded set.                                                             *)
(***************************************************************************)
\* The most rows without a match put in front of the rows of an HDFC table
MaxFill == 5

\* The lines of HDFC rows: date and time, description, suffix, amount
HdfcLines ==
    { stamp \o desc \o suffix \o amount :
        stamp \in {<<"0","6","/","0","2","/","2","0","2","4"," ","|"," ","1","0",":","1","5"," ">>, <<"3","1","/","0","2","/","2","0","2","4","|","1","0",":","1","5"," ">>},
        desc \in {<<"R","E","F","U","N","D"," ","A","M","A","Z","O","N">>, <<"B","B","P","S"," "," ","P","A","Y","M","E","N","T">>},
        suffix \in {<<>>, <<" ","+"," ","C">>, <<"+"," ","C">>, <<" ","C">>, <<" ","c">>, <<" ","+","C">>},
        amount \in {<<" ","1",",","0","0","0",".","0","0">>, <<" ","3","0","0",".","0","0"," ","X">>} }
    \cup {<<"D","o","m","e","s","t","i","c"," ","T","r","a","n","s","a","c","t","i","o","n","s">>, <<"0","6","/","0","2","/","2","0","2","4"," ","|"," ","1","0",":","1","5">>}

\* The rows of HDFC tables: a line in one cell, and rows of other shapes
HdfcRows ==
    {Row(<<Some(l)>>) : l \in HdfcLines}
    \cup {Row(<<Some(<<"0","7","/","0","2","/","2","0","2","4"," ","|"," ","1","1",":","0","0"," ","S","W","I","G","G","Y"," ","+"," ","C"," ","3","0","0",".","0","0">>), None>>),
          Row(<<Some(<<"D","a","t","e">>), Some(<<"A","m","o","u","n","t">>)>>),
          Row(<<None>>), Row(<<>>), AbsentRow}

\* k rows that hold no transaction
Fill(k) == [i \in 1..k |-> Row(<<Some(<<"D","o","m","e","s","t","i","c"," ","T","r","a","n","s","a","c","t","i","o","n","s">>)>>)]

\* The tables handed to the HDFC strategy: the first row of a table that comes
\* from the document is a list
HdfcTables ==
    { t \in { Fill(k) \o body :
                k \in 0..MaxFill,
                body \in {<<r>> : r \in HdfcRows}
                        \cup {<<r, Row(<<Some(<<"D","a","t","e">>), Some(<<"A","m","o","u","n","t">>)>>)>> :
                                r \in HdfcRows} } :
        ~t[1].absent }

\* The cells of the data rows of Axis tables, by what the column holds
DateCells == {None, Some(<<"0","2","/","0","2","/","2","0","2","4">>), Some(<<"3","2","/","0","1","/","2","0","2","4">>),
              Some(<<"E","N","D"," ","O","F"," ","S","T","A","T","E","M","E","N","T">>)}

DescCells == {None, Some(<<>>), Some(<<"U","B","E","R">>), Some(<<" ","T","R","I","P"," ">>), Some(<<"N","o","n","e">>),
              Some(<<"A","M","A","Z","O","N","\n","P","A","Y">>)}

CategoryCells == {None, Some(<<"T","R","A","V","E","L">>)}

AmountCells == {None, Some(<<"2","5","0",".","0","0">>), Some(<<"1","0",".","0","0"," ","C","r">>), Some(<<"0",".","0","0">>),
                Some(<<"a","b","c">>)}

\* A row and the rows it gives when its last cells are missing
Truncated(cells) == {Row(SubSeq(cells, 1, n)) : n \in 0..Len(cells)}

\* Axis tables of one data row and a row after it, under each header row: the
\* plain one, the one with merged cells, the one without a category, the one
\* with the category in front
AxisPlain ==
    { <<Row(<<Some(<<"D","A","T","E">>), Some(<<"T","R","A","N","S","A","C","T","I","O","N"," ","D","E","T","A","I","L","S">>),
              Some(<<"M","E","R","C","H","A","N","T"," ","C","A","T","E","G","O","R","Y">>), Some(<<"A","M","O","U","N","T"," ","(","R","s",".",")">>)>>), r>> :
        r \in UNION { Truncated(<<d, t, c, a>>) :
                        d \in DateCells, t \in DescCells,
                        c \in CategoryCells, a \in AmountCells } }

AxisMerged ==
    { <<Row(<<Some(<<"D","A","T","E">>), Some(<<"T","R","A","N","S","A","C","T","I","O","N"," ","D","E","T","A","I","L","S">>), None,
              Some(<<"M","E","R","C","H","A","N","T"," ","C","A","T","E","G","O","R","Y">>), Some(<<"A","M","O","U","N","T"," ","(","R","s",".",")">>)>>), r>> :
        r \in UNION { Truncated(<<d, t, u, c, a>>) :
                        d \in DateCells, t \in DescCells, u \in DescCells,
                        c \in CategoryCells, a \in AmountCells } }

AxisNoCategory ==
    { <<Row(<<Some(<<"D","a","t","e">>), Some(<<"T","r","a","n","s","a","c","t","i","o","n"," ","D","e","t","a","i","l","s">>), None,
              Some(<<"A","m","o","u","n","t"," ","(","R","s",".",")">>)>>), r>> :
        r \in UNION { Truncated(<<d, t, u, a>>) :
                        d \in DateCells, t \in DescCells, u \in DescCells,
                        a \in AmountCells } }

AxisCategoryFirst ==
    { <<Row(<<Some(<<"M","E","R","C","H","A","N","T"," ","C","A","T","E","G","O","R","Y">>), Some(<<"D","A","T","E">>),
              Some(<<"T","R","A","N","S","A","C","T","I","O","N"," ","D","E","T","A","I","L","S">>), Some(<<"A","M","O","U","N","T"," ","(","R","s",".",")">>)>>), r>> :
        r \in UNION { Truncated(<<c, d, t, a>>) :
                        d \in DateCells, t \in DescCells,
                        c \in CategoryCells, a \in AmountCells } }

\* The rows that follow the first data row
AxisSecondRows ==
    { Row(<<Some(<<"0","3","/","0","2","/","2","0","2","4">>), Some(<<"S","W","I","G","G","Y">>), Some(<<"F","O","O","D">>), Some(<<"1","2","0",".","0","0">>),
            Some(<<"1","2","0",".","0","0">>)>>),
      AbsentRow }

\* The tables handed to the Axis strategy
AxisTables ==
    { t \o rest :
        t \in AxisPlain \cup AxisMerged \cup AxisNoCategory
              \cup AxisCategoryFirst,
        rest \in {<<>>} \cup {<<s>> : s \in AxisSecondRows} }

\* The header rows of Standard tables: the plain one, the synonyms, one with
\* a cell that is None or empty in each place, one without a date
StandardHeaderRows ==
    { <<Some(<<"D","a","t","e">>), Some(<<"D","e","s","c","r","i","p","t","i","o","n">>), Some(<<"A","m","o","u","n","t">>)>>,
      <<Some(<<"D","a","t","e">>), Some(<<"D","e","s","c","r","i","p","t","i","o","n">>), Some(<<"A","m","t">>)>>,
      <<Some(<<"P","o","s","t","i","n","g"," ","D","a","t","e">>), Some(<<"P","a","r","t","i","c","u","l","a","r","s">>), Some(<<"D","e","b","i","t">>)>>,
      <<Some(<<"S","r">>), Some(<<"D","a","t","e">>), Some(<<"D","e","t","a","i","l","s">>), Some(<<"A","m","o","u","n","t">>)>>,
      <<None, Some(<<"D","a","t","e">>), Some(<<"D","e","s","c","r","i","p","t","i","o","n">>), Some(<<"A","m","o","u","n","t">>)>>,
      <<Some(<<"D","a","t","e">>), None, Some(<<"D","e","s","c","r","i","p","t","i","o","n">>), Some(<<"A","m","o","u","n","t">>)>>,
      <<Some(<<"D","a","t","e">>), Some(<<"D","e","s","c","r","i","p","t","i","o","n">>), Some(<<>>), Some(<<"A","m","o","u","n","t">>)>>,
      <<Some(<<"D","e","s","c","r","i","p","t","i","o","n">>), Some(<<"A","m","o","u","n","t">>)>> }

\* The cells a data row holds under a header cell
StandardCells(header) ==
    IF ~Truthy(header) THEN {None, Some(<<"7">>)}
    ELSE IF Contains(Lower(header.text), <<"d","a","t","e">>) THEN DateCells
    ELSE IF Lower(header.text) = <<"s","r">> THEN {Some(<<"7">>)}
    ELSE IF ContainsAny(Lower(header.text), {<<"a","m">>, <<"d","e","b","i","t">>}) THEN AmountCells
    ELSE {Some(<<"U","B","E","R">>), Some(<<" ","T","R","I","P"," ">>), None}

\* The data rows under a header row, whole and with their last cells missing
StandardDataRows(header) ==
    UNION { Truncated(cells) :
              cells \in { c \in [1..Len(header) -> DateCells \cup AmountCells
                                     \cup {Some(<<"7">>), Some(<<"U","B","E","R">>), Some(<<" ","T","R","I","P"," ">>)}] :
                            \A i \in 1..Len(header) :
                                c[i] \in StandardCells(header[i]) } }

\* The tables of a header row h: a data row, and nothing or an absent row
\* after it
StandardUnder(h) ==
    { <<Row(h), r>> \o rest :
        r \in StandardDataRows(h), rest \in {<<>>, <<AbsentRow>>} }

\* The tables handed to the Standard strategy, with the tables of two data
\* rows, the table without rows and the tables whose first row is empty or
\* absent
StandardTables ==
    UNION {StandardUnder(h) : h \in StandardHeaderRows}
    \cup { <<Row(h), Row(<<Some(<<"7">>), Some(<<"0","3","/","0","2","/","2","0","2","4">>), Some(<<"S","W","I","G","G","Y">>),
                           Some(<<"1","2","0",".","0","0">>)>>),
             Row(<<Some(<<"0","2","/","0","2","/","2","0","2","4">>), Some(<<"U","B","E","R">>), Some(<<"2","5","0",".","0","0">>)>>)>> :
            h \in StandardHeaderRows }
    \cup { <<>>, <<Row(<<>>)>>, <<AbsentRow>> }

TableInput(kind, table) == [fn |-> "input", kind |-> kind, arg |-> table]

CallHdfcCanParse ==
    /\ probe.fn = "input"
    /\ probe.kind = "hdfc"
    /\ probe' = Called("HDFCParser.can_parse", probe.arg,
                       HDFC_can_parse(probe.arg))
    /\ ProbeFrame

CallHdfcExtract ==
    /\ probe.fn = "input"
    /\ probe.kind = "hdfc"
    /\ probe' = Called("HDFCParser.extract_transactions", probe.arg,
                       HDFC_extract(probe.arg))
    /\ ProbeFrame

CallAxisExtract ==
    /\ probe.fn = "input"
    /\ probe.kind = "axis"
    /\ probe' = Called("AxisParser.extract_transactions", probe.arg,
                       Axis_extract(probe.arg))
    /\ ProbeFrame

CallStandardCanParse ==
    /\ probe.fn = "input"
    /\ probe.kind = "standard"
    /\ probe' = Called("StandardParser.can_parse", probe.arg,
                       Standard_can_parse(probe.arg))
    /\ ProbeFrame

CallStandardExtract ==
    /\ probe.fn = "input"
    /\ probe.kind = "standard"
    /\ probe' = Called("StandardParser.extract_transactions", probe.arg,
                       Standard_extract(probe.arg))
    /\ ProbeFrame

InitTable ==
    /\ ProbeOnly
    /\ probe \in {TableInput("hdfc", t) : t \in HdfcTables}
                 \cup {TableInput("axis", t) : t \in AxisTables}
                 \cup {TableInput("standard", t) : t \in StandardTables}

NextTable ==
    \/ CallHdfcCanParse
    \/ CallHdfcExtract
    \/ CallAxisExtract
    \/ CallStandardCanParse
    \/ CallStandardExtract

SpecTable == InitTable /\ [][NextTable]_vars

Next ==
    \/ Open
    \/ OpenFails
    \/ NextPage
    \/ PageFails
    \/ \E k \in 1..Len(DocTables) : Table(k)
    \/ EndTables
    \/ \E x \in 1..Len(DocTexts) : Fallback(x)
    \/ EndDocument

Spec == Init /\ [][Next]_vars

(***************************************************************************)
(* Properties of extract_transactions (specification Spec)                  *)
(***************************************************************************)
\* C1: every record extract_transactions emits, from a strategy or from the
\* line scanner, has amount >= 0; the direction is carried by is_credit only.
C1_AmountNonNegative ==
    \A i \in 1..Len(transactions) : transactions[i].amount >= 0

\* C2, as stated: when the call has ended and a table of any page has yielded a
\* record, no page was scanned by the line scanner and the result holds no
\* record of the line scanner.
C2_TableYieldSuppressesEveryScan ==
    pc = "done" =>
        ((\E i \in 1..Len(origin) : origin[i].src = "table")
            => /\ scanned = {}
               /\ \A j \in 1..Len(origin) : origin[j].src # "fallback")

\* C2, amended: the text of a page is scanned only when the list accumulated
\* over the document, the tables of that page included, is empty; so when a
\* table of a page yields a record, that page and every later page is not
\* scanned, and every record of the line scanner comes from an earlier page.
C2_NoScanFromYieldingPageOn ==
    /\ event.kind = "scanned" => event.before = <<>>
    /\ \A i \in 1..Len(origin) :
          origin[i].src = "table" =>
              /\ \A p \in scanned : p < origin[i].page
              /\ \A j \in 1..Len(origin) :
                    origin[j].src = "fallback" => origin[j].page < origin[i].page

\* A document whose first page was scanned and gave a record, and whose second
\* page holds a table that yields one
C2_ScannedThenTableYields ==
    /\ pc = "done"
    /\ 1 \in scanned
    /\ \E j \in 1..Len(origin) : origin[j].src = "fallback" /\ origin[j].page = 1
    /\ \E i \in 1..Len(origin) : origin[i].src = "table" /\ origin[i].page = 2

\* C3: can_parse of each of the three strategies returns a boolean and does not
\* raise, here for the table of the last step.
C3_CanParseNeverRaises ==
    event.table # 0 =>
        \A p \in {"HDFC", "Axis", "Standard"} :
            can_parse(p, DocTables[event.table]).exc = "none"

\* C4: when the selected strategy raises on a table, the loop over the tables
\* goes on: the call has not ended, no exception has left it, and the list is
\* the list as it was before that table.
C4_TableFailureIsContained ==
    event.kind = "parser_failed" =>
        /\ pc = "tables"
        /\ ~propagated
        /\ transactions = event.before

\* A strategy has raised on a table, and a table processed after records were
\* accumulated has added its records to them
C4_FailureThenLaterYield ==
    /\ failures > 0
    /\ event.kind = "extracted"
    /\ event.before # <<>>
    /\ Len(transactions) > Len(event.before)
    /\ SubSeq(transactions, 1, Len(event.before)) = event.before

\* C5: when the call has ended, no exception has left extract_transactions, and
\* when the document could not be opened the list returned is empty.
C5_NoExceptionPropagates ==
    pc = "done" =>
        /\ ~propagated
        /\ event.kind = "open_failed" => transactions = <<>>

\* The call has ended on an exception raised after records were accumulated
C5_FailedAfterRecords ==
    /\ pc = "done"
    /\ event.kind = "page_failed"
    /\ transactions # <<>>

\* Whether a strategy accepts a table: can_parse returns true
C6_Accepts(p, table) ==
    can_parse(p, table).exc = "none" /\ can_parse(p, table).val

\* The strategies whose name equals the hint, case-insensitively
C6_Named(hint) ==
    {p \in {"HDFC", "Axis", "Standard"} :
        Truthy(hint) /\ Lower(ParserName(p)) = Lower(hint.text)}

\* The strategy C6 asks for: the one the hint names when it accepts, otherwise
\* the first of HDFC, Axis, Standard that accepts, otherwise none
C6_Expected(table, hint) ==
    IF \E p \in C6_Named(hint) : C6_Accepts(p, table)
    THEN CHOOSE p \in C6_Named(hint) : C6_Accepts(p, table)
    ELSE IF \E k \in 1..Len(Parsers) : C6_Accepts(Parsers[k], table)
    THEN Parsers[Min({k \in 1..Len(Parsers) : C6_Accepts(Parsers[k], table)})]
    ELSE "None"

\* C6: get_parser returns the strategy the hint names when it accepts the
\* table, otherwise the first of HDFC, Axis, Standard that accepts it, and
\* otherwise None, and then the table yields no record; here for the table of
\* the last step and the hint of the call.
C6_SelectionPrecedence ==
    event.table # 0 =>
        /\ get_parser(DocTables[event.table], bank)
               = Ret(C6_Expected(DocTables[event.table], bank))
        /\ C6_Expected(DocTables[event.table], bank) = "None"
               => ProcessTable(DocTables[event.table], bank, <<>>).list = <<>>

(***************************************************************************)
(* Properties of the ingestion (specification SpecIngest)                   *)
(***************************************************************************)
\* Whether a description holds one of the markers, in any letter case
C7_HasMarker(description, markers) ==
    \E m \in markers : Contains(Upper(description), m)

\* C7: a row whose description holds a hidden-charge marker has the category
\* "Hidden Charges" whatever the issuer supplied; otherwise a non-empty issuer
\* category is kept; predict is called exactly for the rows that are no hidden
\* charge and have no issuer category, and gives their category.
C7_CategoryPriority ==
    \A i \in 1..Len(db) :
        /\ C7_HasMarker(db[i].description, HiddenChargeMarkers)
              => db[i].category = HiddenCharges
        /\ ~C7_HasMarker(db[i].description, HiddenChargeMarkers)
              /\ Truthy(calls[i].t_data.category)
              => db[i].category = calls[i].t_data.category.text
        /\ calls[i].predict <=>
              /\ ~C7_HasMarker(db[i].description, HiddenChargeMarkers)
              /\ ~Truthy(calls[i].t_data.category)
        /\ calls[i].predict => db[i].category = calls[i].label

\* A hidden charge that came with an issuer category was ingested
C7_HiddenChargeWithIssuerCategory ==
    \E i \in 1..Len(db) :
        /\ C7_HasMarker(db[i].description, HiddenChargeMarkers)
        /\ Truthy(calls[i].t_data.category)
        /\ calls[i].t_data.category.text # HiddenCharges

\* C8: is_cashback holds exactly when the upper-cased description holds the
\* cashback marker and the record is a credit; is_bill_payment and
\* is_hidden_charge hold exactly when it holds one of their markers, whatever
\* the direction and whatever the other flags.
C8_FlagsIndependent ==
    \A i \in 1..Len(db) :
        /\ db[i].is_credit = calls[i].t_data.is_credit
        /\ db[i].is_cashback <=>
              C7_HasMarker(db[i].description, {CashbackMarker}) /\ db[i].is_credit
        /\ db[i].is_bill_payment <=>
              C7_HasMarker(db[i].description, BillPaymentMarkers)
        /\ db[i].is_hidden_charge <=>
              C7_HasMarker(db[i].description, HiddenChargeMarkers)

\* A row with two flags was ingested, and a debit with the cashback marker
C8_TwoFlagsAndCashbackDebit ==
    /\ \E i \in 1..Len(db) : db[i].is_cashback /\ db[i].is_hidden_charge
    /\ \E j \in 1..Len(db) :
          /\ C7_HasMarker(db[j].description, {CashbackMarker})
          /\ ~db[j].is_credit
          /\ ~db[j].is_cashback

(***************************************************************************)
(* Properties of the report (specification SpecReport)                      *)
(***************************************************************************)
\* The sum of the amounts of the rows at the indices I
RECURSIVE C9_Sum(_, _)
C9_Sum(rows, I) ==
    IF I = {} THEN 0
    ELSE rows[Max(I)].amount + C9_Sum(rows, I \ {Max(I)})

\* The indices of the rows that are neither bill payment, cashback nor hidden
\* charge, of one direction
C9_Counted(rows, credit) ==
    {i \in 1..Len(rows) :
        /\ ~rows[i].is_bill_payment
        /\ ~rows[i].is_cashback
        /\ ~rows[i].is_hidden_charge
        /\ rows[i].is_credit = credit}

\* The indices of C9_Counted whose row has the category c
C9_CountedIn(rows, credit, c) ==
    {i \in C9_Counted(rows, credit) : rows[i].category = c}

\* C9: total_spend is the sum over the rows that are neither bill payment,
\* cashback nor hidden charge, debits added and credits subtracted, and
\* category_spend is that sum for each category of those rows.
C9_SpendOverUnflaggedRows ==
    report.computed =>
        /\ report.total_spend
              = C9_Sum(report.over, C9_Counted(report.over, FALSE))
                - C9_Sum(report.over, C9_Counted(report.over, TRUE))
        /\ DOMAIN report.category_spend
              = {report.over[i].category :
                    i \in C9_Counted(report.over, FALSE)
                          \cup C9_Counted(report.over, TRUE)}
        /\ \A c \in DOMAIN report.category_spend :
              report.category_spend[c]
                  = C9_Sum(report.over, C9_CountedIn(report.over, FALSE, c))
                    - C9_Sum(report.over, C9_CountedIn(report.over, TRUE, c))

\* A report over a refund and a hidden charge
C9_RefundAndHiddenCharge ==
    /\ report.computed
    /\ C9_Counted(report.over, TRUE) # {}
    /\ \E i \in 1..Len(report.over) : report.over[i].is_hidden_charge
    /\ report.total_spend < 0

\* The indices of the cashback rows of one direction
C10_Cashback(rows, credit) ==
    {i \in 1..Len(rows) : rows[i].is_cashback /\ rows[i].is_credit = credit}

\* C10: total_cashback is the sum over the cashback rows, credits added and
\* debits subtracted; total_hidden_charges is the sum of the amounts of the
\* hidden charges; net_spend is total_spend - total_cashback.
C10_CashbackHiddenNet ==
    report.computed =>
        /\ report.total_cashback
              = C9_Sum(report.over, C10_Cashback(report.over, TRUE))
                - C9_Sum(report.over, C10_Cashback(report.over, FALSE))
        /\ report.total_hidden_charges
              = C9_Sum(report.over,
                       {i \in 1..Len(report.over) : report.over[i].is_hidden_charge})
        /\ report.net_spend = report.total_spend - report.total_cashback

\* A report over a cashback credit and a cashback debit
C10_CashbackAndReversal ==
    /\ report.computed
    /\ C10_Cashback(report.over, TRUE) # {}
    /\ C10_Cashback(report.over, FALSE) # {}


\* C11: predict never raises: it returns "Uncategorized" when no model is held
\* or when the prediction of the model fails, and the label of the model
\* otherwise
C11_PredictFallsBack ==
    (classifier.state = "built" /\ classifier.last.called) =>
        /\ classifier.last.result.exc = "none"
        /\ classifier.last.result.val =
               IF classifier.model = "None"
                  \/ classifier.last.outcome.exc # "none"
               THEN Uncategorized
               ELSE classifier.last.outcome.val

\* A prediction of a held model that failed
C11_FailedPrediction ==
    /\ classifier.state = "built"
    /\ classifier.model # "None"
    /\ classifier.last.called
    /\ classifier.last.outcome.exc # "none"
    /\ classifier.last.result = Ret(Uncategorized)

\* C19: a constructed classifier holds the model of the artifact it found when
\* that could be loaded, with no fit and no write of the artifact, and otherwise
\* the model fitted on the seed corpus, which is then what the artifact holds;
\* this stays so after every sequence of predict and train calls
C19_ModelLifecycle ==
    classifier.state = "built" =>
        IF classifier.initial.exists /\ classifier.initial.loadable
        THEN /\ classifier.model = classifier.initial.pickle
             /\ classifier.artifact = classifier.initial
             /\ classifier.fits = 0
             /\ classifier.writes = 0
        ELSE /\ classifier.model = "seed"
             /\ classifier.artifact = Pickled("seed")
             /\ classifier.fits = 1
             /\ classifier.writes = 1

\* A loaded model after predict and train calls
C19_LoadedThenCalled ==
    /\ classifier.state = "built"
    /\ classifier.initial = Pickled("stored")
    /\ classifier.model = "stored"
    /\ classifier.predicts = MaxCalls
    /\ classifier.trains = MaxCalls

\* The text without a leading '+' and the white space after it
C14_WithoutPlus(s) == IF StartsWith(s, <<"+">>) THEN Strip(Tail(s)) ELSE s

\* The stripped text without its trailing marker, one of the given suffixes
C14_WithoutMark(s, marks) ==
    IF \E m \in marks : EndsWith(s, m)
    THEN Strip(SubSeq(s, 1, Len(s) - Len(CHOOSE m \in marks : EndsWith(s, m))))
    ELSE s

C14_Examples ==
    /\ detect_credit_transaction(<<"1",",","0","0","0",".","0","0"," ","C","r">>) =
           [amount |-> 100000, is_credit |-> TRUE]
    /\ detect_credit_transaction(<<"5","0","0",".","0","0"," ","D","r">>) =
           [amount |-> 50000, is_credit |-> FALSE]

\* C14 as stated: is_credit is true iff the amount text ends with Cr or begins
\* with '+', and is false for a text that ends with Dr; the amount is
\* parse_amount of the text without the marker
C14_MarkerGivesCredit ==
    /\ C14_Examples
    /\ probe.fn = "detect_credit_transaction" =>
        /\ probe.out.is_credit <=>
               \/ EndsWith(Strip(probe.arg), <<"C","r">>)
               \/ StartsWith(Strip(probe.arg), <<"+">>)
        /\ EndsWith(Strip(probe.arg), <<"D","r">>) => ~probe.out.is_credit

\* C14, amended: is_credit is true iff the stripped amount text ends with
\* " Cr" (a space, then Cr) or begins with '+', and the amount is parse_amount
\* of the text without its trailing " Cr" or " Dr" and without its leading '+'
C14_SpacedMarkerOrPlus ==
    /\ C14_Examples
    /\ probe.fn = "detect_credit_transaction" =>
        /\ probe.out.is_credit <=>
               \/ EndsWith(Strip(probe.arg), <<" ","C","r">>)
               \/ StartsWith(Strip(probe.arg), <<"+">>)
        /\ probe.out.amount =
               parse_amount(C14_WithoutPlus(
                   C14_WithoutMark(Strip(probe.arg), {<<" ","C","r">>, <<" ","D","r">>})))

\* A '+' in front of an amount with the Dr marker: a credit
C14_PlusAndDr ==
    /\ probe.fn = "detect_credit_transaction"
    /\ probe.arg = <<"+","5","0","0",".","0","0"," ","D","r">>
    /\ probe.out = [amount |-> 50000, is_credit |-> TRUE]

\* C15: clean_description is idempotent and its result is never longer than
\* its argument
C15_CleanIdempotentNoLonger ==
    probe.fn = "clean_description" =>
        /\ clean_description(probe.out) = probe.out
        /\ Len(probe.out) <= Len(probe.arg)

\* A text with a newline, a run of white space and white space at the ends
C15_CleanedText ==
    /\ probe.fn = "clean_description"
    /\ probe.arg = <<" ", "a", "\n", "\t", "b">>
    /\ probe.out = <<"a", " ", "b">>

\* A decimal number: an optional '-', digits, at most one '.' among them, and
\* at least one digit
C16_IsDecimal(t) ==
    \E neg \in {0, 1}, dot \in 1..(Len(t) + 1) :
        /\ neg = 1 => (t # <<>> /\ t[1] = "-")
        /\ \A i \in (neg + 1)..Len(t) :
               IF i = dot THEN t[i] = "." ELSE t[i] \in Digit
        /\ \E i \in (neg + 1)..Len(t) : t[i] \in Digit

\* C16: parse_amount returns a number for every text, and 0 when the characters
\* left after everything but digits, '.' and '-' is removed are no decimal
\* number
C16_ParseAmountTotal ==
    probe.fn = "parse_amount" =>
        /\ probe.out \in Int
        /\ ~C16_IsDecimal(Filter(probe.arg, Digit \cup {".", "-"}))
               => probe.out = 0

\* A text with digits and a misplaced '-'
C16_MisplacedMinus ==
    /\ probe.fn = "parse_amount"
    /\ probe.arg = <<"1", ",", "0", "-">>
    /\ probe.out = 0

\* The description of a matched row without its suffix "+ C" or " C"
C12_Unsuffixed(d) ==
    IF EndsWith(d, <<"+"," ","C">>) THEN Strip(SubSeq(d, 1, Len(d) - 3))
    ELSE IF EndsWith(d, <<" ","C">>) THEN Strip(SubSeq(d, 1, Len(d) - 2))
    ELSE d

\* The record of a matched row whose stripped description is d, when the
\* suffixes of credit_marks mark a credit
C12_Record(m, d, credit_marks) ==
    IF ~m.ok \/ parse_date(m.date) = NoDate THEN <<>>
    ELSE << Txn(parse_date(m.date), clean_description(C12_Unsuffixed(d)),
                parse_amount(m.amount),
                \E mark \in credit_marks : EndsWith(d, mark), None) >>

C12_Matched(m, credit_marks) == C12_Record(m, Strip(m.desc), credit_marks)

RECURSIVE C12_Records(_, _)
C12_Records(rows, credit_marks) ==
    IF rows = <<>> THEN <<>>
    ELSE (IF RowTruthy(Head(rows)) /\ Head(rows).cells[1].some
          THEN C12_Matched(HdfcMatch(ReplaceNewlines(Head(rows).cells[1].text)),
                           credit_marks)
          ELSE <<>>)
         \o C12_Records(Tail(rows), credit_marks)

\* C12 as stated: a matched row of an HDFC table whose description ends with
\* "+ C" or with " C" is emitted as a credit without the suffix, and a row with
\* neither as a debit
C12_EitherSuffixIsCredit ==
    (/\ probe.fn = "HDFCParser.extract_transactions"
     /\ HDFC_can_parse(probe.arg) = Ret(TRUE)) =>
        probe.out = Ret(C12_Records(probe.arg, {<<"+"," ","C">>, <<" ","C">>}))

\* C12, amended: a description that ends with "+ C" gives a credit, one that
\* ends with " C" and not with "+ C" a debit, both without the suffix; a row
\* with neither suffix is a debit
C12_PlusSuffixIsCredit ==
    (/\ probe.fn = "HDFCParser.extract_transactions"
     /\ HDFC_can_parse(probe.arg) = Ret(TRUE)) =>
        probe.out = Ret(C12_Records(probe.arg, {<<"+"," ","C">>}))

\* A row whose description ends with " C" alone, emitted as a debit without it
C12_PlainSuffixDebit ==
    /\ probe.fn = "HDFCParser.extract_transactions"
    /\ probe.arg = <<Row(<<Some(<<"0","6","/","0","2","/","2","0","2","4"," ","|"," ","1","0",":","1","5"," ","R","E","F","U","N","D"," ","A","M","A","Z","O","N"," ","C"," ","1",",","0","0","0",".","0","0">>)>>)>>
    /\ probe.out = Ret(<<Txn(<<2024, 2, 6>>, <<"R","E","F","U","N","D"," ","A","M","A","Z","O","N">>, 100000, FALSE,
                             None)>>)

\* One of the first five rows of the table has a first cell whose text holds
\* the pattern DD/MM/YYYY | HH:MM
C17_PatternInFirstFive(table) ==
    \E k \in 1..Len(table) :
        /\ k <= 5
        /\ ~table[k].absent
        /\ table[k].cells # <<>>
        /\ table[k].cells[1].some
        /\ HdfcSearch(table[k].cells[1].text)

\* C17 as stated: HDFCParser.can_parse is true exactly when every row of the
\* table has exactly one cell and one of the first five rows holds the pattern
C17_EveryRowOneCell ==
    probe.fn = "HDFCParser.can_parse" =>
        probe.out =
            Ret(/\ \A k \in 1..Len(probe.arg) :
                     ~probe.arg[k].absent /\ Len(probe.arg[k].cells) = 1
                /\ C17_PatternInFirstFive(probe.arg))

\* C17, amended: HDFCParser.can_parse is true exactly when the first row of the
\* table has exactly one cell and one of the first five rows holds the pattern;
\* the number of cells of the later rows is not looked at
C17_FirstRowOneCell ==
    probe.fn = "HDFCParser.can_parse" =>
        probe.out =
            Ret(/\ Len(probe.arg[1].cells) = 1
                /\ C17_PatternInFirstFive(probe.arg))

\* A table accepted though its second row has two cells
C17_LaterRowTwoCells ==
    /\ probe.fn = "HDFCParser.can_parse"
    /\ Len(probe.arg) = 2
    /\ Len(probe.arg[1].cells) = 1
    /\ ~probe.arg[2].absent
    /\ Len(probe.arg[2].cells) = 2
    /\ probe.out = Ret(TRUE)

\* The column at which the description of an Axis row ends: the category
\* column, or the amount column when the header row has no category
C13_End(headers_upper) ==
    IF FirstIndex(headers_upper, {<<"M","E","R","C","H","A","N","T"," ","C","A","T","E","G","O","R","Y">>}) # 0
    THEN FirstIndex(headers_upper, {<<"M","E","R","C","H","A","N","T"," ","C","A","T","E","G","O","R","Y">>})
    ELSE FirstIndex(headers_upper, {<<"A","M","O","U","N","T">>})

\* The stripped texts of the cells lo..hi that are not blank; a cell whose text
\* is "None" in any case is among them only if keep_none
RECURSIVE C13_Parts(_, _, _, _)
C13_Parts(cells, lo, hi, keep_none) ==
    IF lo > hi THEN <<>>
    ELSE (IF /\ cells[lo].some
             /\ Strip(cells[lo].text) # <<>>
             /\ (keep_none \/ Upper(Strip(cells[lo].text)) # <<"N","O","N","E">>)
          THEN <<Strip(cells[lo].text)>> ELSE <<>>)
         \o C13_Parts(cells, lo + 1, hi, keep_none)

C13_Joined(headers_upper, cells, keep_none) ==
    Join(C13_Parts(cells, FirstIndex(headers_upper, {<<"T","R","A","N","S","A","C","T","I","O","N">>}),
                   Min({C13_End(headers_upper) - 1, Len(cells)}), keep_none))

\* The description the claim gives a data row: as stated, the joined cells; as
\* amended, the joined cells but those that say None, cleaned
C13_Text(header, row, amended) ==
    IF amended
    THEN clean_description(C13_Joined(AxisHeaders(header.cells), row.cells, FALSE))
    ELSE C13_Joined(AxisHeaders(header.cells), row.cells, TRUE)

\* The descriptions of the records of a table whose data rows were all emitted
C13_Descriptions(table, records, amended) ==
    Len(records) = Len(table) - 1 =>
        \A k \in 1..Len(records) :
            records[k].description = C13_Text(table[1], table[k + 1], amended)

\* C13 as stated: the description of an emitted Axis row is the space-joined
\* concatenation of the cells that are not empty, from the description column
\* up to the category column, or the amount column when there is no category
C13_DescriptionIsJoinedCells ==
    probe.fn = "AxisParser.extract_transactions" =>
        /\ probe.out.exc = "none"
        /\ C13_Descriptions(probe.arg, probe.out.val, FALSE)

\* C13, amended: the description is clean_description of the space-joined
\* stripped texts of those cells, without the cells whose text is None in any
\* case
C13_DescriptionIsCleanedJoin ==
    probe.fn = "AxisParser.extract_transactions" =>
        /\ probe.out.exc = "none"
        /\ C13_Descriptions(probe.arg, probe.out.val, TRUE)

\* A row under the header with merged cells whose description cells are the
\* text None and a text with a newline
C13_NoneAndNewline ==
    /\ probe.fn = "AxisParser.extract_transactions"
    /\ Len(probe.arg) = 2
    /\ probe.arg[2] = Row(<<Some(<<"0","2","/","0","2","/","2","0","2","4">>), Some(<<"N","o","n","e">>),
                            Some(<<"A","M","A","Z","O","N","\n","P","A","Y">>), Some(<<"T","R","A","V","E","L">>),
                            Some(<<"2","5","0",".","0","0">>)>>)
    /\ Len(probe.out.val) = 1
    /\ probe.out.val[1].description = <<"A","M","A","Z","O","N"," ","P","A","Y">>

\* The cell of a data row under the first header that holds a token: present
\* and not empty
C18_Has(headers_upper, cells, token) ==
    /\ FirstIndex(headers_upper, {token}) # 0
    /\ FirstIndex(headers_upper, {token}) <= Len(cells)
    /\ Truthy(cells[FirstIndex(headers_upper, {token})])

C18_Text(headers_upper, cells, token) ==
    Strip(cells[FirstIndex(headers_upper, {token})].text)

\* The data rows the claim says are skipped: a footer row, a row without a
\* date, a description or an amount, with a date that does not parse, or with
\* an amount of zero
C18_Skipped(headers_upper, row) ==
    \/ row.absent
    \/ row.cells = <<>>
    \/ Truthy(row.cells[1]) /\ is_footer_row(row.cells[1].text)
    \/ ~C18_Has(headers_upper, row.cells, <<"D","A","T","E">>)
    \/ ~C18_Has(headers_upper, row.cells, <<"A","M","O","U","N","T">>)
    \/ C13_Joined(headers_upper, row.cells, FALSE) = <<>>
    \/ parse_date(C18_Text(headers_upper, row.cells, <<"D","A","T","E">>)) = NoDate
    \/ detect_credit_transaction(
           C18_Text(headers_upper, row.cells, <<"A","M","O","U","N","T">>)).amount = 0

\* The data rows of a table that are not skipped
C18_Kept(table) ==
    {k \in 2..Len(table) : ~C18_Skipped(AxisHeaders(table[1].cells), table[k])}

\* C18: the Axis strategy does not raise on a data row, emits one record for
\* each data row that is not skipped, whatever rows come before it, and no
\* record with an amount of 0 or without a date
C18_SkipsAndGoesOn ==
    probe.fn = "AxisParser.extract_transactions" =>
        /\ probe.out.exc = "none"
        /\ Len(probe.out.val) = Cardinality(C18_Kept(probe.arg))
        /\ \A k \in 1..Len(probe.out.val) :
               /\ probe.out.val[k].amount # 0
               /\ probe.out.val[k].date # NoDate

\* A row with an amount of zero skipped, and the row after it emitted
C18_ZeroThenEmitted ==
    /\ probe.fn = "AxisParser.extract_transactions"
    /\ Len(probe.arg) = 3
    /\ probe.arg[2] = Row(<<Some(<<"0","2","/","0","2","/","2","0","2","4">>), Some(<<"U","B","E","R">>), Some(<<"T","R","A","V","E","L">>),
                            Some(<<"0",".","0","0">>)>>)
    /\ Len(probe.out.val) = 1
    /\ probe.out.val[1].description = <<"S","W","I","G","G","Y">>

RECURSIVE C20_Sum(_, _)
C20_Sum(rows, I) ==
    IF I = {} THEN 0
    ELSE rows[Min(I)].amount + C20_Sum(rows, I \ {Min(I)})

\* The rows of one direction that get_report counts as spending
C20_Spending(rows, credit) ==
    {i \in 1..Len(rows) :
        /\ rows[i].is_credit = credit
        /\ ~(rows[i].is_bill_payment \/ rows[i].is_cashback
             \/ rows[i].is_hidden_charge)}

\* The debits whose description holds the cashback marker and no marker of a
\* bill payment or a hidden charge
C20_MarkedDebits(rows) ==
    {i \in 1..Len(rows) :
        /\ ~rows[i].is_credit
        /\ Contains(Upper(rows[i].description), CashbackMarker)
        /\ ~ContainsAny(Upper(rows[i].description),
                        BillPaymentMarkers \cup HiddenChargeMarkers)}

\* C20: every row ingestion writes has is_cashback only if is_credit; so a
\* report over such rows counts no cashback reversal, subtracts nothing from
\* total_cashback, and has the debits with the cashback marker in total_spend
C20_IngestedCashbackIsCredit ==
    /\ \A i \in 1..Len(db) : db[i].is_cashback => db[i].is_credit
    /\ report.computed =>
        /\ report.cashback_reversal_count = 0
        /\ report.total_cashback
              = C20_Sum(report.over,
                        {i \in 1..Len(report.over) : report.over[i].is_cashback})
        /\ C20_MarkedDebits(report.over) \subseteq C20_Spending(report.over, FALSE)
        /\ report.total_spend
              = C20_Sum(report.over, C20_Spending(report.over, FALSE))
                - C20_Sum(report.over, C20_Spending(report.over, TRUE))

\* A report over an ingested debit with the cashback marker
C20_MarkedDebitReported ==
    /\ report.computed
    /\ C20_MarkedDebits(report.over) # {}
    /\ report.total_spend > 0
    /\ report.cashback_reversal_count = 0

\* The pages of the call whose tables and fallback are both behind it
C21_Completed ==
    {p \in 1..pageNo :
        p < pageNo \/ pc = "page" \/ (pc = "done" /\ event.kind = "returned")}

\* No record of the list comes from before the fallback of page p: from an
\* earlier page, or from a table of page p
C21_EmptyAfterTables(p) ==
    \A i \in 1..Len(origin) :
        ~(origin[i].page < p \/ (origin[i].page = p /\ origin[i].src = "table"))

\* C21: a page is scanned by the line scanner iff the list is empty after the
\* tables of that page; the scanned pages are the first pages of the document,
\* and no page after one that gave a record is scanned
C21_ScannedIffStillEmpty ==
    /\ \A p \in C21_Completed : p \in scanned <=> C21_EmptyAfterTables(p)
    /\ \A p \in scanned : C21_EmptyAfterTables(p) /\ 1..p \subseteq scanned
    /\ \A p \in scanned : \A i \in 1..Len(origin) : p <= origin[i].page
    /\ event.kind = "scanned" => event.before = <<>>
    /\ event.kind = "not_scanned" => event.before # <<>>

\* A document whose first page was scanned and gave records, and whose second
\* page, without a table that yields, was not scanned
C21_SecondPageNotScanned ==
    /\ pc = "done"
    /\ event.kind = "returned"
    /\ pageNo = 2
    /\ scanned = {1}
    /\ origin # <<>>
    /\ \A i \in 1..Len(origin) : origin[i].src = "fallback" /\ origin[i].page = 1

(***************************************************************************)
(* C22                                                                     *)
(***************************************************************************)
\* The place in the header row of the first cell that holds one of words, 0
\* when no cell does
C22_Position(cells, words) ==
    MinOrZero({i \in 1..Len(cells) :
                 Truthy(cells[i]) /\ ContainsAny(Lower(Str(cells[i])), words)})

\* Whether index is the place of a cell of the header row that holds one of
\* words
C22_UnderHeader(cells, index, words) ==
    /\ index \in 1..Len(cells)
    /\ Truthy(cells[index])
    /\ ContainsAny(Lower(Str(cells[index])), words)

C22_DateWords == {<<"d","a","t","e">>}

C22_DescWords == {<<"d","e","s","c","r","i","p","t","i","o","n">>, <<"d","e","t","a","i","l","s">>, <<"p","a","r","t","i","c","u","l","a","r","s">>}

C22_AmountWords == {<<"a","m","o","u","n","t">>, <<"d","e","b","i","t">>, <<"a","m","t">>}

\* C22: when can_parse of the Standard strategy accepts a table,
\* extract_transactions resolves date_idx, desc_idx and amt_idx, each of them
\* is the place in the header row of a header cell that matched, header rows
\* with None cells and the header "amt" included, and the records are the
\* ones read from the columns under the matching headers.
C22_IndicesUnderMatchingHeaders ==
    (/\ probe.fn = "StandardParser.extract_transactions"
     /\ Standard_can_parse(probe.arg) = Ret(TRUE)) =>
        /\ Standard_date_idx(StandardHeaders(probe.arg[1].cells)) # 0
        /\ Standard_desc_idx(StandardHeaders(probe.arg[1].cells)) # 0
        /\ Standard_amt_idx(StandardHeaders(probe.arg[1].cells)) # 0
        /\ C22_UnderHeader(probe.arg[1].cells,
               Standard_date_idx(StandardHeaders(probe.arg[1].cells)),
               C22_DateWords)
        /\ C22_UnderHeader(probe.arg[1].cells,
               Standard_desc_idx(StandardHeaders(probe.arg[1].cells)),
               C22_DescWords)
        /\ C22_UnderHeader(probe.arg[1].cells,
               Standard_amt_idx(StandardHeaders(probe.arg[1].cells)),
               C22_AmountWords)
        /\ probe.out.exc = "none" =>
               probe.out.val =
                   Standard_rows(Tail(probe.arg),
                       C22_Position(probe.arg[1].cells, C22_DateWords),
                       C22_Position(probe.arg[1].cells, C22_DescWords),
                       C22_Position(probe.arg[1].cells, C22_AmountWords))
=============================================================================
